---------------------------- MODULE Spec2Model ----------------------------
(***************************************************************************)
(* OpenTextExpander: the expansion engine (ExpansionEngine, the spec's     *)
(* MatchIndex) and the content script's per-field handling                 *)
(* (ContentScriptManager, the spec's FieldSession).                        *)
(*                                                                         *)
(* JavaScript strings are sequences of one-character strings, so that      *)
(* substring, concatenation, toLowerCase and join are computed.  A map is  *)
(* a function from its keys to its values.  An object is a function from   *)
(* its property names to their values.                                     *)
(*                                                                         *)
(* The specifications share the variables:                                 *)
(*   SpecIndex  initialize / _buildTrie / _buildShortcuts /                *)
(*              findExpansionMatch on inputs drawn from bounded sets       *)
(*   SpecChord  buildKeyCombination on key-down events                     *)
(*   SpecField  typing in a linear-string field (input, textarea)          *)
(*   SpecSession  text-change and key-down events on a field of either     *)
(*              kind (input, contenteditable region)                       *)
(*   SpecSplit  the same events on a region whose text an inserted         *)
(*              shortcut text has split into several text nodes            *)
(*   SpecWord   typing at the end of a linear-string field, for each       *)
(*              combination of the two settings                            *)
(*   SpecEmail  the same events on an input whose type has no selection    *)
(*              API                                                        *)
(*   SpecLong   the same events on a field that holds a word of about      *)
(*              maxTriggerLength characters                                *)
(*   SpecNested  the handling of one event, one listener run per step:     *)
(*              the synthetic input event an edit dispatches re-enters     *)
(*              the listener; SpecNestedFair adds that the dispatch runs   *)
(*              the listener                                               *)
(*   Spec       the event loop: storage writes, loads in flight, resumes   *)
(*   SpecStart  the content script's start-up (readiness poll, fallback    *)
(*              timer, init), the saves and their messages, the reloads    *)
(*              with their domain key; SpecStartFair adds the timers'      *)
(*              fairness                                                   *)
(*   SpecPage   the page after its start-up: reloads in flight while the   *)
(*              user types, focus loss                                     *)
(*   SpecWorker the background worker's save requests, each storage        *)
(*              callback a turn of its own                                 *)
(***************************************************************************)
EXTENDS Integers, Sequences, FiniteSets

VARIABLES
  storage,      \* chrome.storage.sync: expansions, shortcuts, settings
  expansions,   \* ExpansionEngine.expansions (Map trigger -> replacement)
  shortcuts,    \* ExpansionEngine.shortcuts (Map keys -> text)
  settings,     \* ExpansionEngine.settings
  isReady,      \* ExpansionEngine.isReady
  loaded,       \* the `data` of the last initialize() that resumed, and how it ended
  completed,    \* the `data` of the last initialize() that ran to the end of its try block
  inflight,     \* the initialize() calls that wait for storage or for their turn to resume
  keyEvent,     \* the KeyboardEvent of the last key-down
  keyCombination,  \* what buildKeyCombination returned for it
  element,      \* the linear-string field: value, selectionStart
  manager,      \* ContentScriptManager: buffer, cursorPos, _lastDelimiter, _pendingPunctuation, settings
  lastEvent,    \* the last event on the field, as its handler found the field, and the lookups it made
  page          \* the content script's start-up: the readiness poll, the fallback timer, the init() calls made; the saves so far

engineVars == <<expansions, shortcuts, settings, isReady, loaded, completed>>
chordVars == <<keyEvent, keyCombination>>
fieldVars == <<element, manager, lastEvent>>

vars == <<storage, engineVars, inflight, chordVars, fieldVars, page>>

----------------------------------------------------------------------------
(* Bounds of the model *)

MaxEntries == 2
MaxShortcuts == 2
MaxStored == 4
MaxCandidateLen == 2
MaxFieldLen == 6
MaxInFlight == 2
MaxSessionLen == 4
MaxNodes == 3
MaxLongLen == 53
MaxPending == 3
MaxSaves == 2
MaxPageLen == 3
MaxSplitLen == 5

----------------------------------------------------------------------------
(* JavaScript values *)

Undefined == [t |-> "undefined"]
String(s) == [t |-> "string", s |-> s]

\* !v for a value that is undefined or a string
Falsy(v) == v.t = "undefined" \/ v.s = <<>>

UpperChars == <<"A", "B", "C", "E", "M", "S">>
LowerChars == <<"a", "b", "c", "e", "m", "s">>

LowerChar(c) ==
  IF \E i \in DOMAIN UpperChars : UpperChars[i] = c
  THEN LowerChars[CHOOSE i \in DOMAIN UpperChars : UpperChars[i] = c]
  ELSE c

toLowerCase(s) == [i \in DOMAIN s |-> LowerChar(s[i])]

\* s.substring(from) with a 0-based index between 0 and the length
substringFrom(s, from) == SubSeq(s, from + 1, Len(s))

\* s.substring(from, to) with 0-based indexes, clamped as JavaScript clamps them
\* (negative to 0, beyond the end to the length; swapped when from > to)
substring(s, from, to) ==
  LET f == IF from > Len(s) THEN Len(s) ELSE IF from < 0 THEN 0 ELSE from
      e == IF to > Len(s) THEN Len(s) ELSE IF to < 0 THEN 0 ELSE to
  IN IF f <= e THEN SubSeq(s, f + 1, e) ELSE SubSeq(s, e + 1, f)

EmptyMap == << >>
MapSet(m, k, v) == [x \in (DOMAIN m) \cup {k} |-> IF x = k THEN v ELSE m[x]]
MapHas(m, k) == k \in DOMAIN m

EmptyObject == << >>
ObjectAssign(target, source) ==
  [k \in (DOMAIN target) \cup (DOMAIN source) |->
     IF k \in DOMAIN source THEN source[k] ELSE target[k]]

SeqsUpTo(S, n) == UNION {[1..k -> S] : k \in 0..n}

----------------------------------------------------------------------------
(* Stored entries *)

Null == [kind |-> "null"]
Expansion(trigger, replacement) ==
  [kind |-> "object", trigger |-> trigger, replacement |-> replacement]
Shortcut(keys, text) == [kind |-> "object", keys |-> keys, text |-> text]

ValidExpansions ==
  { Expansion(String(<<"A", "b">>), String(<<"X">>)),
    Expansion(String(<<"b">>), String(<<"Y">>)),
    Expansion(String(<<"a", "b">>), String(<<"Z">>)) }

MalformedExpansions ==
  { Expansion(Undefined, String(<<"X">>)),
    Expansion(String(<<>>), String(<<"X">>)),
    Expansion(String(<<"A", "b">>), Undefined),
    Expansion(String(<<"a", "b">>), String(<<>>)) }

CtrlM == <<"c", "t", "r", "l", "+", "m">>

ValidShortcuts == { Shortcut(String(CtrlM), String(<<"T">>)) }

MalformedShortcuts ==
  { Shortcut(Undefined, String(<<"T">>)),
    Shortcut(String(CtrlM), String(<<>>)) }

----------------------------------------------------------------------------
(* ExpansionEngine *)

RECURSIVE buildTrieLoop(_, _, _, _)
buildTrieLoop(list, i, map, caseSensitive) ==
  IF i > Len(list) THEN [map |-> map, threw |-> FALSE]
  ELSE LET expansion == list[i] IN
    IF expansion.kind = "null" THEN [map |-> map, threw |-> TRUE]
    ELSE IF Falsy(expansion.trigger) \/ Falsy(expansion.replacement)
    THEN buildTrieLoop(list, i + 1, map, caseSensitive)
    ELSE LET trigger == IF caseSensitive THEN expansion.trigger.s
                        ELSE toLowerCase(expansion.trigger.s)
         IN buildTrieLoop(list, i + 1,
                          MapSet(map, trigger, expansion.replacement.s),
                          caseSensitive)

\* a loop that ends at the first entry it cannot index
RECURSIVE buildTrieLoopBreak(_, _, _, _)
buildTrieLoopBreak(list, i, map, caseSensitive) ==
  IF i > Len(list) THEN [map |-> map, threw |-> FALSE]
  ELSE LET expansion == list[i] IN
    IF expansion.kind = "null" THEN [map |-> map, threw |-> TRUE]
    ELSE IF Falsy(expansion.trigger) \/ Falsy(expansion.replacement)
    THEN [map |-> map, threw |-> FALSE]
    ELSE LET trigger == IF caseSensitive THEN expansion.trigger.s
                        ELSE toLowerCase(expansion.trigger.s)
         IN buildTrieLoopBreak(list, i + 1,
                               MapSet(map, trigger, expansion.replacement.s),
                               caseSensitive)

_buildTrieBreak(list, caseSensitive) ==
  buildTrieLoopBreak(list, 1, EmptyMap, caseSensitive)

\* _buildTrie(expansions) with this.settings.caseSensitive as it stands at the
\* call: the new content of this.expansions, and whether the loop threw.
\* (this.expansionTrie mirrors the keys and is read by no lookup.)
_buildTrie(list, caseSensitive) ==
  buildTrieLoop(list, 1, EmptyMap, caseSensitive)

RECURSIVE buildShortcutsLoop(_, _, _)
buildShortcutsLoop(list, i, map) ==
  IF i > Len(list) THEN [map |-> map, threw |-> FALSE]
  ELSE LET shortcut == list[i] IN
    IF shortcut.kind = "null" THEN [map |-> map, threw |-> TRUE]
    ELSE IF Falsy(shortcut.keys) \/ Falsy(shortcut.text)
    THEN buildShortcutsLoop(list, i + 1, map)
    ELSE buildShortcutsLoop(list, i + 1, MapSet(map, shortcut.keys.s, shortcut.text.s))

_buildShortcuts(list) == buildShortcutsLoop(list, 1, EmptyMap)

NoMatch == [t |-> "null"]
Match(trigger, replacement, startIndex, endIndex) ==
  [t |-> "match", trigger |-> trigger, replacement |-> replacement,
   startIndex |-> startIndex, endIndex |-> endIndex]

\* for (let i = text.length - 1; i > 0; i--) over the suffixes lowerText.substring(i)
RECURSIVE suffixLoop(_, _, _)
suffixLoop(map, lowerText, i) ==
  IF i <= 0 THEN NoMatch
  ELSE LET suffix == substringFrom(lowerText, i) IN
    IF MapHas(map, suffix)
    THEN Match(suffix, map[suffix], i, Len(lowerText))
    ELSE suffixLoop(map, lowerText, i - 1)

\* a lookup that never folds its candidate
findExpansionMatchNoFold(map, caseSensitive, text) ==
  IF Len(text) = 0 THEN NoMatch
  ELSE IF MapHas(map, text) THEN Match(text, map[text], 0, Len(text))
  ELSE suffixLoop(map, text, Len(text) - 1)

\* a lookup that scans the prefixes instead of the suffixes
findExpansionMatchPrefix(map, caseSensitive, text) ==
  IF Len(text) = 0 THEN NoMatch
  ELSE LET lowerText == IF caseSensitive THEN text ELSE toLowerCase(text)
           P == {i \in 1..Len(text) : MapHas(map, SubSeq(lowerText, 1, i))}
       IN IF P = {} THEN NoMatch
          ELSE LET i == CHOOSE j \in P : \A k \in P : k <= j
               IN Match(SubSeq(lowerText, 1, i), map[SubSeq(lowerText, 1, i)], 0, i)

\* findExpansionMatch(text) on the engine state (map, caseSensitive)
findExpansionMatchIn(map, caseSensitive, text) ==
  IF Len(text) = 0 THEN NoMatch
  ELSE LET lowerText == IF caseSensitive THEN text ELSE toLowerCase(text) IN
    IF MapHas(map, lowerText)
    THEN Match(lowerText, map[lowerText], 0, Len(text))
    ELSE suffixLoop(map, lowerText, Len(text) - 1)

findExpansionMatch(text) ==
  findExpansionMatchIn(expansions, settings.caseSensitive, text)

NoText == [t |-> "null"]

\* getShortcutMatch(keyCombination) on a shortcut map
getShortcutMatchIn(map, combination) ==
  IF MapHas(map, combination) /\ map[combination] # <<>>
  THEN String(map[combination])
  ELSE NoText

getShortcutMatch(combination) == getShortcutMatchIn(shortcuts, combination)

NoKeyCombination == [t |-> "null"]

ModifierNames ==
  { <<"c", "o", "n", "t", "r", "o", "l">>, <<"s", "h", "i", "f", "t">>,
    <<"a", "l", "t">>, <<"m", "e", "t", "a">> }

\* parts.join(separator)
RECURSIVE join(_, _)
join(parts, separator) ==
  IF Len(parts) = 0 THEN <<>>
  ELSE IF Len(parts) = 1 THEN parts[1]
  ELSE parts[1] \o separator \o join(Tail(parts), separator)

\* the modifier parts pushed in source order
modifierParts(event) ==
  (IF event.ctrlKey \/ event.metaKey THEN << <<"c", "t", "r", "l">> >> ELSE <<>>)
  \o (IF event.shiftKey THEN << <<"s", "h", "i", "f", "t">> >> ELSE <<>>)
  \o (IF event.altKey THEN << <<"a", "l", "t">> >> ELSE <<>>)

\* buildKeyCombination(event)
buildKeyCombination(event) ==
  IF Falsy(event.key) THEN NoKeyCombination
  ELSE LET key == toLowerCase(event.key.s)
           parts == modifierParts(event)
                    \o (IF key \notin ModifierNames THEN <<key>> ELSE <<>>)
       IN IF Len(parts) > 1 THEN String(join(parts, <<"+">>)) ELSE NoKeyCombination

\* _getStorageData(): what the promise resolves with (no domain key)
_getStorageData(allData) ==
  [expansions |-> allData.expansions,
   shortcuts |-> allData.shortcuts,
   settings |-> allData.settings]

NoLoad == [done |-> FALSE]
NoData == [t |-> "none"]

\* initialize() from the point where `await this._getStorageData(domain)` resumes
\* with `data`: the two builds, the settings merge and the catch clause run in
\* one turn of the event loop.
initializeResume(data) ==
  LET trie == _buildTrie(data.expansions, settings.caseSensitive)
      chords == _buildShortcuts(data.shortcuts)
  IN /\ expansions' = trie.map
     /\ shortcuts' = IF trie.threw THEN shortcuts ELSE chords.map
     /\ settings' = IF trie.threw \/ chords.threw THEN settings
                    ELSE ObjectAssign(settings, data.settings)
     /\ isReady' = TRUE
     /\ loaded' = [done |-> TRUE, data |-> data,
                   caseSensitiveAtBuild |-> settings.caseSensitive,
                   threw |-> trie.threw \/ chords.threw]
     /\ completed' = IF trie.threw \/ chords.threw THEN completed ELSE data

\* a constructor that leaves an index behind while the engine is not ready
EngineConstructedIndexed ==
  /\ expansions = MapSet(EmptyMap, <<"a", "a">>, <<"a", "b", "b">>)
  /\ shortcuts = EmptyMap
  /\ settings = [caseSensitive |-> FALSE]
  /\ isReady = FALSE
  /\ loaded = NoLoad
  /\ completed = NoData

\* The constructor's state
EngineConstructed ==
  /\ expansions = EmptyMap
  /\ shortcuts = EmptyMap
  /\ settings = [caseSensitive |-> FALSE]
  /\ isReady = FALSE
  /\ loaded = NoLoad
  /\ completed = NoData

----------------------------------------------------------------------------
(* SpecIndex: loads and lookups on stored lists drawn from bounded sets *)

IndexExpansionLists == SeqsUpTo(ValidExpansions \cup MalformedExpansions, MaxEntries)
IndexShortcutLists == SeqsUpTo(ValidShortcuts \cup MalformedShortcuts, MaxShortcuts)
IndexSettings ==
  {EmptyObject, [caseSensitive |-> FALSE], [caseSensitive |-> TRUE]}

NoKeyEvent == [t |-> "none"]

NoKeyDown ==
  /\ keyEvent = NoKeyEvent
  /\ keyCombination = NoKeyCombination

NoEvent == [t |-> "none"]

\* the content script as its last statements leave it: the 50 ms readiness
\* poll runs, the 2000 ms fallback timer is pending, init() was not called,
\* the background worker has saved nothing yet
ScriptLoaded == page = [poll |-> TRUE, fallback |-> TRUE, inits |-> 0, saves |-> 0]

\* an input or textarea: element.value and element.selectionStart
LinearField(value, selectionStart) ==
  [kind |-> "linear", value |-> value, selectionStart |-> selectionStart]

\* an input whose type has no selection API (email, number):
\* selectionStart is null, which is falsy as 0 is, and setSelectionRange
\* throws InvalidStateError
EmailField(value) == [kind |-> "email", value |-> value, selectionStart |-> 0]

\* an element of the page that is no input, textarea or contenteditable
Elsewhere == [kind |-> "other"]

\* the ContentScriptManager as its constructor leaves it
\* (_pendingPunctuation is not initialised)
ManagerConstructed ==
  /\ manager = [buffer |-> <<>>, cursorPos |-> 0, lastDelimiter |-> "null",
                pendingPunctuation |-> Undefined,
                settings |-> [punctuationAware |-> FALSE, caseSensitive |-> FALSE]]
  /\ lastEvent = NoEvent

\* an empty linear field and a fresh manager
FieldConstructed ==
  /\ element = LinearField(<<>>, 0)
  /\ ManagerConstructed

\* the stored configurations: at most MaxStored entries in the two lists together
IndexConfigs ==
  {c \in [expansions : IndexExpansionLists,
          shortcuts : IndexShortcutLists,
          settings : IndexSettings] :
     Len(c.expansions) + Len(c.shortcuts) <= MaxStored}

InitIndex ==
  /\ storage \in IndexConfigs
  /\ EngineConstructed
  /\ inflight = <<>>
  /\ NoKeyDown
  /\ ScriptLoaded
  /\ FieldConstructed

\* initialize() with the storage read and the rebuild in one step
initialize ==
  /\ initializeResume(_getStorageData(storage))
  /\ UNCHANGED <<storage, inflight, chordVars, page, fieldVars>>

\* the background worker's saveSettings (no merge): the stored settings object is replaced
saveSettings(s) ==
  /\ storage' = [storage EXCEPT !.settings = s]
  /\ UNCHANGED <<engineVars, inflight, chordVars, page, fieldVars>>

NextIndex ==
  \/ initialize
  \/ \E s \in IndexSettings : saveSettings(s)

SpecIndex == InitIndex /\ [][NextIndex]_vars


----------------------------------------------------------------------------
(* Claims about the index (SpecIndex) *)

CandidateChars == {"a", "A", "b"}
Candidates == SeqsUpTo(CandidateChars, MaxCandidateLen)

\* a stored entry with a non-empty trigger and a non-empty replacement
IsValidExpansion(e) ==
  /\ e.kind = "object"
  /\ e.trigger.t = "string" /\ e.trigger.s # <<>>
  /\ e.replacement.t = "string" /\ e.replacement.s # <<>>

\* a stored shortcut with a non-empty chord and a non-empty text
IsValidShortcut(e) ==
  /\ e.kind = "object"
  /\ e.keys.t = "string" /\ e.keys.s # <<>>
  /\ e.text.t = "string" /\ e.text.s # <<>>

ValidIndexes(list) == {i \in DOMAIN list : IsValidExpansion(list[i])}
ValidShortcutIndexes(list) == {i \in DOMAIN list : IsValidShortcut(list[i])}

FoldBy(caseSensitive, s) == IF caseSensitive THEN s ELSE toLowerCase(s)

\* the folded candidate as the lookup of the current state folds it
Folded(c) == FoldBy(settings.caseSensitive, c)

\* the start indexes of the suffixes of s (s itself included) that are stored keys
KeySuffixes(s) == {i \in 0..(Len(s) - 1) : MapHas(expansions, substringFrom(s, i))}

\* the caseSensitive value of the configuration the last load read: the stored
\* one, or the engine's own where the stored settings do not hold the key
LoadedCaseSensitive ==
  IF "caseSensitive" \in DOMAIN loaded.data.settings
  THEN loaded.data.settings.caseSensitive
  ELSE loaded.caseSensitiveAtBuild

UniquePostFold(list, caseSensitive) ==
  \A i, j \in DOMAIN list :
    i # j => FoldBy(caseSensitive, list[i].trigger.s) # FoldBy(caseSensitive, list[j].trigger.s)

\* C2: after a load of valid entries whose triggers are unique after folding by
\* the loaded caseSensitive, findExpansionMatch(t) with t as stored returns that
\* entry's replacement, for every entry.
C2_StoredTriggerFound ==
  LET list == loaded.data.expansions IN
  ( /\ loaded.done /\ ~loaded.threw
    /\ \A i \in DOMAIN list : IsValidExpansion(list[i])
    /\ UniquePostFold(list, LoadedCaseSensitive) )
  => \A i \in DOMAIN list :
       LET m == findExpansionMatch(list[i].trigger.s)
       IN m.t = "match" /\ m.replacement = list[i].replacement.s

\* C3: after a load, the keys are the valid triggers folded by the caseSensitive
\* value of the configuration that load read, and that value is the one by
\* which lookups fold their candidate.
C3_KeysFoldedAsLookups ==
  (loaded.done /\ ~loaded.threw) =>
    LET list == loaded.data.expansions IN
    /\ settings.caseSensitive = LoadedCaseSensitive
    /\ DOMAIN expansions =
         {FoldBy(LoadedCaseSensitive, list[i].trigger.s) : i \in ValidIndexes(list)}

\* C4: with caseSensitive = false, every candidate gets the lookup result of its
\* lower-case spelling, so candidates that differ only in letter case (they
\* share that spelling) get the same result.
C4_CaseInsensitiveLookup ==
  (settings.caseSensitive = FALSE) =>
    \A c \in Candidates : findExpansionMatch(c) = findExpansionMatch(toLowerCase(c))

\* a trigger stored with an upper-case letter is found by two spellings
C4_Witness ==
  /\ loaded.done
  /\ settings.caseSensitive = FALSE
  /\ \E i \in DOMAIN loaded.data.expansions :
       /\ IsValidExpansion(loaded.data.expansions[i])
       /\ loaded.data.expansions[i].trigger.s # toLowerCase(loaded.data.expansions[i].trigger.s)
  /\ \E c \in Candidates :
       /\ c # toLowerCase(c)
       /\ findExpansionMatch(c).t = "match"
       /\ findExpansionMatch(toLowerCase(c)).t = "match"

\* C5: a load that reads the same data as the load before it leaves every
\* trigger lookup and every chord lookup as the load before left it.
C5_RebuildIdempotent ==
  [][ ( /\ loaded.done
        /\ loaded.data = _getStorageData(storage)
        /\ loaded'.done
        /\ loaded'.data = loaded.data )
      => /\ \A c \in Candidates :
              findExpansionMatchIn(expansions', settings'.caseSensitive, c)
                = findExpansionMatchIn(expansions, settings.caseSensitive, c)
         /\ \A k \in {CtrlM} :
              getShortcutMatchIn(shortcuts', k) = getShortcutMatchIn(shortcuts, k)
    ]_vars

\* C6: a load of a list of entry objects raises nothing, indexes the trigger of
\* every valid entry (folded as the build folds) and the chord of every valid
\* shortcut, and indexes nothing for the entries that lack a field.
C6_MalformedSkipped ==
  loaded.done =>
    LET list == loaded.data.expansions
        chords == loaded.data.shortcuts
    IN /\ ( (\A i \in DOMAIN list : list[i].kind = "object")
            /\ (\A i \in DOMAIN chords : chords[i].kind = "object") ) => ~loaded.threw
       /\ ~loaded.threw =>
            /\ DOMAIN expansions =
                 {FoldBy(loaded.caseSensitiveAtBuild, list[i].trigger.s) : i \in ValidIndexes(list)}
            /\ DOMAIN shortcuts = {chords[i].keys.s : i \in ValidShortcutIndexes(chords)}

\* a valid entry indexed although a malformed one stands before it, in both lists
C6_Witness ==
  /\ loaded.done
  /\ Len(loaded.data.expansions) = 2
  /\ ~IsValidExpansion(loaded.data.expansions[1])
  /\ IsValidExpansion(loaded.data.expansions[2])
  /\ MapHas(expansions, FoldBy(loaded.caseSensitiveAtBuild, loaded.data.expansions[2].trigger.s))
  /\ Len(loaded.data.shortcuts) = 2
  /\ ~IsValidShortcut(loaded.data.shortcuts[1])
  /\ IsValidShortcut(loaded.data.shortcuts[2])
  /\ MapHas(shortcuts, CtrlM)

\* the valid entries of the last load whose trigger folds to key
FoldingTo(key) ==
  { i \in DOMAIN loaded.data.expansions :
      /\ IsValidExpansion(loaded.data.expansions[i])
      /\ toLowerCase(loaded.data.expansions[i].trigger.s) = key }

LastOf(S) == CHOOSE i \in S : \A j \in S : j <= i

\* C30: after a load that ran to its end, with lookups that fold the case,
\* the valid entries whose triggers are equal after case folding have one
\* key in the trigger map, and the lookup of that folded trigger returns
\* the replacement of the last of them in the order of the stored list.
C30_LastEntryWins ==
  ( loaded.done /\ ~loaded.threw /\ ~settings.caseSensitive )
    => \A i \in DOMAIN loaded.data.expansions :
         ( /\ IsValidExpansion(loaded.data.expansions[i])
           /\ Cardinality(FoldingTo(toLowerCase(loaded.data.expansions[i].trigger.s))) > 1 )
           => LET key == toLowerCase(loaded.data.expansions[i].trigger.s)
              IN /\ Cardinality({k \in DOMAIN expansions : toLowerCase(k) = key}) = 1
                 /\ findExpansionMatch(key).t = "match"
                 /\ findExpansionMatch(key).replacement =
                      loaded.data.expansions[LastOf(FoldingTo(key))].replacement.s

----------------------------------------------------------------------------
(* SpecChord: buildKeyCombination on the key-down events of a bounded set *)

KeyValues ==
  { Undefined, String(<<>>),
    String(<<"m">>), String(<<"M">>), String(<<"E", "n", "t", "e", "r">>),
    String(<<"C", "o", "n", "t", "r", "o", "l">>), String(<<"S", "h", "i", "f", "t">>),
    String(<<"A", "l", "t">>), String(<<"M", "e", "t", "a">>) }

KeyEvents ==
  [t : {"keydown"}, ctrlKey : BOOLEAN, metaKey : BOOLEAN, shiftKey : BOOLEAN,
   altKey : BOOLEAN, key : KeyValues]

InitChord ==
  /\ storage = [expansions |-> <<>>, shortcuts |-> <<>>, settings |-> EmptyObject]
  /\ EngineConstructed
  /\ inflight = <<>>
  /\ NoKeyDown
  /\ ScriptLoaded
  /\ FieldConstructed

\* a key-down whose chord is built
keydownChord(event) ==
  /\ keyEvent' = event
  /\ keyCombination' = buildKeyCombination(event)
  /\ UNCHANGED <<storage, engineVars, inflight, fieldVars, page>>

NextChord == \E event \in KeyEvents : keydownChord(event)

SpecChord == InitChord /\ [][NextChord]_vars

(* Claims about the chord (SpecChord) *)

\* C8: a chord is returned only for a key-down with a modifier held and a key
\* that is no modifier name; a bare key press and every key-down of Control,
\* Shift, Alt or Meta yield none.
C8_ChordNeedsModifierAndKey ==
  (keyEvent # NoKeyEvent /\ keyCombination # NoKeyCombination) =>
    /\ keyEvent.ctrlKey \/ keyEvent.metaKey \/ keyEvent.shiftKey \/ keyEvent.altKey
    /\ keyEvent.key.t = "string"
    /\ keyEvent.key.s # <<>>
    /\ toLowerCase(keyEvent.key.s) \notin
         { <<"c", "o", "n", "t", "r", "o", "l">>, <<"s", "h", "i", "f", "t">>,
           <<"a", "l", "t">>, <<"m", "e", "t", "a">> }

\* the canonical chord of an event: ctrl (for ctrl or meta), shift, alt, then
\* the lower-cased key, joined with "+"
CanonicalChord(event) ==
  (IF event.ctrlKey \/ event.metaKey THEN <<"c", "t", "r", "l", "+">> ELSE <<>>)
  \o (IF event.shiftKey THEN <<"s", "h", "i", "f", "t", "+">> ELSE <<>>)
  \o (IF event.altKey THEN <<"a", "l", "t", "+">> ELSE <<>>)
  \o toLowerCase(event.key.s)

\* C9: every chord returned is the held modifiers in the order ctrl, shift, alt
\* followed by the lower-cased non-modifier key, joined with "+".
C9_CanonicalChord ==
  (keyEvent # NoKeyEvent /\ keyCombination # NoKeyCombination) =>
    keyCombination = String(CanonicalChord(keyEvent))

----------------------------------------------------------------------------
(* ContentScriptManager on one editable field.
   A handler works on st: the field (element), the manager's own fields, and
   what the handler has done so far: the lookups it made (calls), the
   synthetic events it dispatched (dispatched), whether it called
   preventDefault (prevented), whether an exception is propagating (threw)
   and whether a listener run by dispatchEvent ended with one (uncaught). *)

Handling(el, m) ==
  [element |-> el, manager |-> m, calls |-> <<>>, dispatched |-> <<>>,
   prevented |-> FALSE, threw |-> FALSE, uncaught |-> FALSE]

(* A contenteditable region: its child text nodes in document order, and the
   selection, which holds no range (rangeCount = 0) or one collapsed range at
   caret.  A boundary point with node = 0 is in the region itself and its
   offset counts children; with node = i it is in the i-th text node and its
   offset counts characters. *)

Point(node, offset) == [node |-> node, offset |-> offset]

Region(nodes, rangeCount, caret) ==
  [kind |-> "hierarchical", nodes |-> nodes, rangeCount |-> rangeCount,
   caret |-> caret]

RECURSIVE concat(_)
concat(nodes) ==
  IF nodes = <<>> THEN <<>> ELSE Head(nodes) \o concat(Tail(nodes))

\* element.textContent
textContent(el) == concat(el.nodes)

\* preCaretRange.toString().length: the characters from the start of the
\* region to the boundary point
preCaretLength(nodes, point) ==
  IF point.node = 0 THEN Len(concat(SubSeq(nodes, 1, point.offset)))
  ELSE Len(concat(SubSeq(nodes, 1, point.node - 1))) + point.offset

minTriggerLength == 2
maxTriggerLength == 50
expansionDelimiter == <<" ">>

\* the grave accent, which a string literal of the model cannot hold as itself
GraveAccent == "grave"

\* the character class of the punctuation pattern in _extractTrigger
PunctuationChars ==
  {".", ",", ";", ":", "!", "?", ")", "]", "}", "\"", "'", GraveAccent}

\* s.lastIndexOf(c), 0-based, -1 when c does not occur
lastIndexOf(s, c) ==
  LET I == {i \in DOMAIN s : s[i] = c}
  IN IF I = {} THEN -1 ELSE (CHOOSE i \in I : \A j \in I : j <= i) - 1

max(a, b) == IF a >= b THEN a ELSE b

_updateBuffer(st) ==
  LET el == st.element IN
    IF el.kind = "hierarchical"
    THEN [st EXCEPT !.manager.buffer = textContent(el),
                    !.manager.cursorPos =
                       IF el.rangeCount > 0 THEN preCaretLength(el.nodes, el.caret)
                       ELSE Len(textContent(el))]
    ELSE [st EXCEPT !.manager.buffer = el.value,
                    !.manager.cursorPos = IF el.selectionStart # 0
                                          THEN el.selectionStart
                                          ELSE Len(el.value)]

_shouldCheckExpansion(st, event) ==
  LET isSpace == event.data = String(expansionDelimiter)
      isEnter == st.manager.lastDelimiter = "enter"
  IN (isSpace \/ isEnter) /\ Len(st.manager.buffer) > minTriggerLength

NoTrigger == [t |-> "null"]

\* a return that has no minimum-length test
returnTriggerNoMinimum(st, word, punctuation) ==
  IF Len(word) > maxTriggerLength
  THEN [trigger |-> String(substringFrom(word, Len(word) - maxTriggerLength)),
        st |-> st]
  ELSE [trigger |-> String(word),
        st |-> [st EXCEPT !.manager.pendingPunctuation = String(punctuation)]]

\* a return that cuts a long word to its first characters
returnTriggerFirstChars(st, word, punctuation) ==
  IF Len(word) < minTriggerLength THEN [trigger |-> NoTrigger, st |-> st]
  ELSE IF Len(word) > maxTriggerLength
  THEN [trigger |-> String(substring(word, 0, maxTriggerLength)), st |-> st]
  ELSE [trigger |-> String(word),
        st |-> [st EXCEPT !.manager.pendingPunctuation = String(punctuation)]]

\* the end of _extractTrigger: the length tests, the returned word and the
\* state it leaves (_pendingPunctuation is stored on the last return path
\* only)
returnTrigger(st, word, punctuation) ==
  IF Len(word) < minTriggerLength THEN [trigger |-> NoTrigger, st |-> st]
  ELSE IF Len(word) > maxTriggerLength
  THEN [trigger |-> String(substringFrom(word, Len(word) - maxTriggerLength)),
        st |-> st]
  ELSE [trigger |-> String(word),
        st |-> [st EXCEPT !.manager.pendingPunctuation = String(punctuation)]]

\* the punctuation-aware strip of one trailing character of word
stripPunctuation(st, word) ==
  IF /\ st.manager.settings.punctuationAware
     /\ Len(word) > 0
     /\ word[Len(word)] \in PunctuationChars
  THEN returnTrigger(st, substring(word, 0, Len(word) - 1), <<word[Len(word)]>>)
  ELSE returnTrigger(st, word, <<>>)

\* the text behind the last space or newline of textBeforeCursor
wordAfter(textBeforeCursor, lastBreak) ==
  IF lastBreak >= 0 THEN substringFrom(textBeforeCursor, lastBreak + 1)
  ELSE textBeforeCursor

wordBeforeCursor(textBeforeCursor) ==
  wordAfter(textBeforeCursor, max(lastIndexOf(textBeforeCursor, " "),
                                  lastIndexOf(textBeforeCursor, "\n")))

\* const excludeLen = this._lastDelimiter === 'enter' ? 0 : 1
excludeLenOf(m) == IF m.lastDelimiter = "enter" THEN 0 ELSE 1

\* _extractTrigger(this.buffer): the returned word, and the state it leaves
_extractTrigger(st) ==
  stripPunctuation(st,
    wordBeforeCursor(substring(st.manager.buffer, 0,
                               st.manager.cursorPos - excludeLenOf(st.manager))))

InputEvent(data) == [data |-> data]

RECURSIVE _handleInput(_, _)

\* a dispatch of the two events that no listener hears
dispatchEventsUnheard(st) ==
  [st EXCEPT !.dispatched = @ \o <<"input", "change">>]

\* element.dispatchEvent of the synthetic 'input' and 'change' events: the
\* 'input' listener runs before dispatchEvent returns, an exception it ends
\* with is reported and does not reach the dispatcher; nothing listens to
\* 'change'
heard(listened) ==
  [listened EXCEPT !.dispatched = Append(@, "change"),
                   !.threw = FALSE,
                   !.uncaught = @ \/ listened.threw]

dispatchEvents(st) ==
  heard(_handleInput([st EXCEPT !.dispatched = Append(@, "input")],
                     InputEvent(Undefined)))

\* the end of _replaceText and of _insertText: the synthetic events are
\* dispatched unless the edit threw
afterEdit(edited) == IF edited.threw THEN edited ELSE dispatchEvents(edited)

\* this._pendingPunctuation || ''
pendingPunctuationOf(m) ==
  IF Falsy(m.pendingPunctuation) THEN <<>> ELSE m.pendingPunctuation.s

\* the input/textarea branch of _replaceText
replaceInValue(st, match) ==
  LET m == st.manager
      excludeLen == IF m.lastDelimiter = "enter" THEN 0 ELSE 1
      punctLen == Len(pendingPunctuationOf(m))
      shouldDeleteDelimiter == m.lastDelimiter # "enter"
      delimiterOut == IF shouldDeleteDelimiter THEN <<" ">> ELSE <<>>
      tail == pendingPunctuationOf(m) \o delimiterOut
      text == st.element.value
      deleteLen == IF shouldDeleteDelimiter THEN excludeLen ELSE 0
      before == substring(text, 0,
                          m.cursorPos - Len(match.trigger) - punctLen - deleteLen)
      after == substring(text, m.cursorPos, Len(text))
      newPos == Len(before) + Len(match.replacement) + Len(tail)
  IN IF st.element.kind = "email"
     THEN [st EXCEPT !.element =
                       EmailField(before \o match.replacement \o tail \o after),
                     !.threw = TRUE]      \* setSelectionRange: InvalidStateError
     ELSE [st EXCEPT !.element =
             LinearField(before \o match.replacement \o tail \o after, newPos)]

\* a splice of the value that forgets the tail (punctuation and delimiter)
replaceInValueNoTail(st, match) ==
  LET m == st.manager
      excludeLen == IF m.lastDelimiter = "enter" THEN 0 ELSE 1
      punctLen == Len(pendingPunctuationOf(m))
      shouldDeleteDelimiter == m.lastDelimiter # "enter"
      text == st.element.value
      deleteLen == IF shouldDeleteDelimiter THEN excludeLen ELSE 0
      before == substring(text, 0,
                          m.cursorPos - Len(match.trigger) - punctLen - deleteLen)
      after == substring(text, m.cursorPos, Len(text))
      newPos == Len(before) + Len(match.replacement)
  IN [st EXCEPT !.element =
        LinearField(before \o match.replacement \o after, newPos)]

\* the contenteditable branch of _replaceText with a range in the selection.
\* deleteRange is set in range.endContainer from deleteRangeEnd - charsToDelete
\* (not below 0) to deleteRangeEnd: characters of a text node, children of the
\* region.  insertNode splits a text node at the start of deleteRange.  range
\* is the selection's live range and follows the deletion and the insertion.
replaceInRegion(st, match) ==
  LET m == st.manager
      el == st.element
      nodes == el.nodes
      range == el.caret
      excludeLen == IF m.lastDelimiter = "enter" THEN 0 ELSE 1
      punctLen == Len(pendingPunctuationOf(m))
      charsToDelete == Len(match.trigger) + punctLen
      deleteRangeEnd == range.offset - excludeLen
      deleteRangeStart == max(0, deleteRangeEnd - charsToDelete)
      i == range.node
  IN IF deleteRangeEnd < 0
     THEN [st EXCEPT !.threw = TRUE]      \* setEnd: IndexSizeError
     ELSE IF i = 0
     THEN [st EXCEPT !.element =
             Region(SubSeq(nodes, 1, deleteRangeStart) \o <<match.replacement>>
                      \o SubSeq(nodes, deleteRangeEnd + 1, Len(nodes)),
                    1,
                    IF m.lastDelimiter = "enter"
                    THEN Point(0, deleteRangeStart + 1)
                    ELSE Point(0, deleteRangeStart + 2))]
     ELSE LET data == nodes[i]
              first == SubSeq(data, 1, deleteRangeStart)
              rest == SubSeq(data, deleteRangeEnd + 1, Len(data))
          IN [st EXCEPT !.element =
                Region(SubSeq(nodes, 1, i - 1) \o <<first, match.replacement, rest>>
                         \o SubSeq(nodes, i + 1, Len(nodes)),
                       1,
                       IF m.lastDelimiter = "enter"
                       THEN Point(0, i + 1)
                       ELSE Point(i + 2, 1))]

\* _replaceText that forgets the tail in an input or textarea
_replaceTextNoTail(st, match) ==
  IF st.element.kind = "hierarchical"
  THEN IF st.element.rangeCount = 0 THEN st
       ELSE afterEdit(replaceInRegion(st, match))
  ELSE afterEdit(replaceInValueNoTail(st, match))

\* _replaceText that goes on without a range in the selection
_replaceTextNoRangeTest(st, match) ==
  IF st.element.kind = "hierarchical"
  THEN afterEdit(replaceInRegion(st, match))
  ELSE afterEdit(replaceInValue(st, match))

\* _replaceText(element, match): the edit, then the synthetic events
_replaceText(st, match) ==
  IF st.element.kind = "hierarchical"
  THEN IF st.element.rangeCount = 0 THEN st
       ELSE afterEdit(replaceInRegion(st, match))
  ELSE afterEdit(replaceInValue(st, match))

\* this.buffer = match.replacement, which an exception of _replaceText skips
setBuffer(replaced, match) ==
  IF replaced.threw THEN replaced
  ELSE [replaced EXCEPT !.manager.buffer = match.replacement]

\* the call of findExpansionMatch(trigger) and what it returned
looked(st, trigger, match) ==
  [st EXCEPT !.calls = Append(@, [text |-> trigger, match |-> match])]

\* if (!match) return; otherwise the replacement
applyMatch(st, match) ==
  IF match = NoMatch THEN st ELSE setBuffer(_replaceText(st, match), match)

\* const match = expansionEngine.findExpansionMatch(trigger), recorded
lookedUp(st, trigger, match) == applyMatch(looked(st, trigger, match), match)

\* if (!trigger) return; otherwise the lookup
checkTrigger(ex) ==
  IF ex.trigger = NoTrigger THEN ex.st
  ELSE lookedUp(ex.st, ex.trigger.s, findExpansionMatch(ex.trigger.s))

_checkAndApplyExpansion(st) == checkTrigger(_extractTrigger(st))

\* if (this._shouldCheckExpansion(event)) this._checkAndApplyExpansion(element)
checkExpansion(updated, event) ==
  IF _shouldCheckExpansion(updated, event)
  THEN _checkAndApplyExpansion(updated)
  ELSE updated

\* _handleInput(event) with event.target the field
_handleInput(st, event) == checkExpansion(_updateBuffer(st), event)

\* the contenteditable branch of _insertText: getRangeAt(0) throws without a
\* range; insertNode splits a text node at the caret; the caret is then set
\* after the new text node
insertInRegion(st, text) ==
  LET el == st.element
      nodes == el.nodes
      range == el.caret
      i == range.node
  IN IF el.rangeCount = 0
     THEN [st EXCEPT !.threw = TRUE]      \* getRangeAt(0): IndexSizeError
     ELSE IF i = 0
     THEN [st EXCEPT !.element =
             Region(SubSeq(nodes, 1, range.offset) \o <<text>>
                      \o SubSeq(nodes, range.offset + 1, Len(nodes)),
                    1, Point(0, range.offset + 1))]
     ELSE [st EXCEPT !.element =
             Region(SubSeq(nodes, 1, i - 1)
                      \o <<SubSeq(nodes[i], 1, range.offset), text,
                           SubSeq(nodes[i], range.offset + 1, Len(nodes[i]))>>
                      \o SubSeq(nodes, i + 1, Len(nodes)),
                    1, Point(0, i + 1))]

\* the input/textarea branch of _insertText
insertInValue(st, text) ==
  LET cursorPos == st.element.selectionStart
      text_val == st.element.value
      before == substring(text_val, 0, cursorPos)
      after == substring(text_val, cursorPos, Len(text_val))
      newPos == cursorPos + Len(text)
  IN IF st.element.kind = "email"
     THEN [st EXCEPT !.element = EmailField(before \o text \o after),
                     !.threw = TRUE]      \* setSelectionRange: InvalidStateError
     ELSE [st EXCEPT !.element = LinearField(before \o text \o after, newPos)]

\* an insertion into the value that leaves the caret where it was
insertInValueCaretStays(st, text) ==
  LET cursorPos == st.element.selectionStart
      text_val == st.element.value
      before == substring(text_val, 0, cursorPos)
      after == substring(text_val, cursorPos, Len(text_val))
  IN [st EXCEPT !.element = LinearField(before \o text \o after, cursorPos)]

\* _insertText(element, text): the insertion, then the synthetic events
_insertText(st, text) ==
  afterEdit(IF st.element.kind = "hierarchical"
            THEN insertInRegion(st, text)
            ELSE insertInValue(st, text))

\* an input, a textarea or a contenteditable element
_isEditableElement(el) == el.kind \in {"linear", "email", "hierarchical"}

\* if (this._isEditableElement(event.target)) this._insertText(...)
insertIfEditable(st, text) ==
  IF _isEditableElement(st.element) THEN _insertText(st, text) ELSE st

\* if (!replacement) return; event.preventDefault(); then the insertion
insertReplacement(st, replacement) ==
  IF replacement = NoText THEN st
  ELSE insertIfEditable([st EXCEPT !.prevented = TRUE], replacement.s)

\* if (!keyCombination) return; otherwise getShortcutMatch(keyCombination)
matchCombination(st, combination) ==
  IF combination = NoKeyCombination THEN st
  ELSE insertReplacement(st, getShortcutMatch(combination.s))

\* _handleKeydown(event) with event.target the field
_handleKeydown(st, event) ==
  IF ~isReady THEN st
  ELSE matchCombination(st, buildKeyCombination(event))

Enter == <<"E", "n", "t", "e", "r">>

\* this._lastDelimiter = null, which an exception of the check skips
clearDelimiter(checked) ==
  IF checked.threw THEN checked
  ELSE [checked EXCEPT !.manager.lastDelimiter = "null"]

\* the 'keydown' listener with event.target st.element: Enter on an
\* editable element goes to the expansion check, every other key-down to
\* _handleKeydown; an exception leaves _lastDelimiter as it is
keydown(st, event) ==
  IF _isEditableElement(st.element) /\ event.key = String(Enter)
  THEN clearDelimiter(_checkAndApplyExpansion(
                        [_updateBuffer(st) EXCEPT !.manager.lastDelimiter = "enter"]))
  ELSE _handleKeydown(st, event)

----------------------------------------------------------------------------
(* SpecField: typing into one input/textarea while the engine and the
   manager's settings load from a fixed storage content. *)

TypedChars == {"a", " ", "."}

\* storage holds one trigger and punctuation-aware mode; the manager starts
\* with the mode off and turns it on when its settings load
FieldConfig ==
  [expansions |-> << Expansion(String(<<"a", "a">>), String(<<"X", "Y">>)) >>,
   shortcuts |-> <<>>,
   settings |-> [punctuationAware |-> TRUE, caseSensitive |-> FALSE]]

InitField ==
  /\ storage = FieldConfig
  /\ EngineConstructed
  /\ inflight = <<>>
  /\ NoKeyDown
  /\ ScriptLoaded
  /\ FieldConstructed

\* the storage callback of init() and of the settingsUpdated message
loadSettings ==
  /\ manager' = [manager EXCEPT !.settings = ObjectAssign(@, storage.settings)]
  /\ UNCHANGED <<storage, engineVars, inflight, chordVars, page, element, lastEvent>>

\* what the 'input' listener leaves of the field typed and of the manager
typedHandled(c, typed, done) ==
  /\ element' = done.element
  /\ manager' = done.manager
  /\ lastEvent' = [t |-> "input", data |-> <<c>>, element |-> typed,
                   punctuationAware |-> manager.settings.punctuationAware,
                   expansions |-> expansions,
                   caseSensitive |-> settings.caseSensitive,
                   calls |-> done.calls]

typedInto(c, typed) ==
  typedHandled(c, typed,
               _handleInput(Handling(typed, manager), InputEvent(String(<<c>>))))

\* the user types c at the caret: the field inserts it, then the 'input'
\* listener runs to completion
typeChar(c) ==
  /\ Len(element.value) < MaxFieldLen
  /\ typedInto(c, LinearField(SubSeq(element.value, 1, element.selectionStart)
                                \o <<c>>
                                \o SubSeq(element.value, element.selectionStart + 1,
                                          Len(element.value)),
                              element.selectionStart + 1))
  /\ UNCHANGED <<storage, engineVars, inflight, chordVars, page>>

\* the user puts the caret at position p
clickCaret(p) ==
  /\ p # element.selectionStart
  /\ element' = [element EXCEPT !.selectionStart = p]
  /\ lastEvent' = [t |-> "select"]
  /\ UNCHANGED <<storage, engineVars, inflight, chordVars, page, manager>>

NextField ==
  \/ initialize
  \/ loadSettings
  \/ \E c \in TypedChars : typeChar(c)
  \/ \E p \in 0..Len(element.value) : clickCaret(p)

SpecField == InitField /\ [][NextField]_vars

----------------------------------------------------------------------------
(* SpecSession: text-change and key-down events on one field of either kind
   (an input, or a contenteditable region whose selection can lose its
   range), with a stored trigger whose replacement ends in another trigger
   and with a chord on Enter. *)

CtrlEnter == <<"c", "t", "r", "l", "+", "e", "n", "t", "e", "r">>

SessionConfig ==
  [expansions |-> << Expansion(String(<<"a", "a">>), String(<<"a", "b", "b">>)),
                     Expansion(String(<<"b", "b">>), String(<<"X", "Y">>)) >>,
   shortcuts |-> << Shortcut(String(CtrlM), String(<<"T">>)),
                    Shortcut(String(CtrlEnter), String(<<"U">>)) >>,
   settings |-> [punctuationAware |-> TRUE, caseSensitive |-> FALSE]]

KeyDown(key, ctrlKey) ==
  [t |-> "keydown", ctrlKey |-> ctrlKey, metaKey |-> FALSE, shiftKey |-> FALSE,
   altKey |-> FALSE, key |-> String(key)]

\* Enter, Ctrl+Enter and Ctrl+M
SessionKeyEvents ==
  { KeyDown(Enter, FALSE), KeyDown(Enter, TRUE), KeyDown(<<"m">>, TRUE) }

\* the text of a field of either kind, and its caret as a character offset
\* (-1 without a range)
TextOf(el) == IF el.kind = "hierarchical" THEN textContent(el) ELSE el.value
CaretOf(el) ==
  IF el.kind = "hierarchical"
  THEN IF el.rangeCount > 0 THEN preCaretLength(el.nodes, el.caret) ELSE -1
  ELSE el.selectionStart

\* the browser's insertion of the typed character c at the caret; without a
\* range the text change is the host page's, which appends c; in an input
\* without selection API the caret is the browser's own, here at the end
typeInto(el, c) ==
  IF el.kind = "email" THEN EmailField(el.value \o <<c>>)
  ELSE IF el.kind = "linear"
  THEN LinearField(SubSeq(el.value, 1, el.selectionStart) \o <<c>>
                     \o SubSeq(el.value, el.selectionStart + 1, Len(el.value)),
                   el.selectionStart + 1)
  ELSE LET nodes == el.nodes
           n == Len(nodes)
           i == el.caret.node
           o == el.caret.offset
       IN IF nodes = <<>> THEN Region(<< <<c>> >>, el.rangeCount, Point(1, 1))
          ELSE IF el.rangeCount = 0
          THEN Region([nodes EXCEPT ![n] = @ \o <<c>>], 0, el.caret)
          ELSE IF i = 0 /\ o = 0
          THEN Region([nodes EXCEPT ![1] = <<c>> \o @], 1, Point(1, 1))
          ELSE IF i = 0
          THEN Region([nodes EXCEPT ![o] = @ \o <<c>>], 1, Point(o, Len(nodes[o]) + 1))
          ELSE Region([nodes EXCEPT ![i] = SubSeq(@, 1, o) \o <<c>>
                                             \o SubSeq(@, o + 1, Len(@))],
                      1, Point(i, o + 1))

\* the boundary point of the character offset p in the region's text nodes
pointAt(nodes, p) ==
  IF nodes = <<>> THEN Point(0, 0)
  ELSE IF p = 0 THEN Point(1, 0)
  ELSE LET i == CHOOSE j \in DOMAIN nodes :
                  /\ Len(concat(SubSeq(nodes, 1, j))) >= p
                  /\ \A k \in 1..(j - 1) : Len(concat(SubSeq(nodes, 1, k))) < p
       IN Point(i, p - Len(concat(SubSeq(nodes, 1, i - 1))))

\* the field has room for one more event: its text is short and, in a
\* region, the edits so far have left few text nodes
SessionOpen ==
  /\ Len(TextOf(element)) < MaxSessionLen
  /\ element.kind = "hierarchical" => Len(element.nodes) <= MaxNodes

InitSession ==
  /\ storage = SessionConfig
  /\ EngineConstructed
  /\ inflight = <<>>
  /\ NoKeyDown
  /\ ScriptLoaded
  /\ element \in {LinearField(<<>>, 0), Region(<<>>, 1, Point(0, 0))}
  /\ ManagerConstructed

\* what a handler leaves of the field and the manager, and what it did;
\* tick tells two equal events in a row apart
handled(type, data, done) ==
  /\ element' = done.element
  /\ manager' = done.manager
  /\ lastEvent' = [t |-> type, data |-> data,
                   tick |-> IF lastEvent.t \in {"input", "keydown"}
                            THEN 1 - lastEvent.tick ELSE 0,
                   calls |-> done.calls,
                   dispatched |-> done.dispatched,
                   prevented |-> done.prevented,
                   uncaught |-> done.threw \/ done.uncaught]

\* a text-change event: the character c goes into the field, then the
\* 'input' listener runs to completion
inputEvent(c) ==
  /\ LET typed == typeInto(element, c)
     IN handled("input", <<c>>,
                _handleInput(Handling(typed, manager), InputEvent(String(<<c>>))))
  /\ UNCHANGED <<storage, engineVars, inflight, chordVars, page>>

input(c) == SessionOpen /\ inputEvent(c)

\* a key-down event on the field: the 'keydown' listener runs to completion;
\* what the default action of the key then does to the field is the host's
keydownEvent(event) ==
  /\ handled("keydown", event, keydown(Handling(element, manager), event))
  /\ UNCHANGED <<storage, engineVars, inflight, chordVars, page>>

keydownOn(event) == SessionOpen /\ keydownEvent(event)

\* the user puts the caret at the character offset p (Home or End)
placeCaret(p) ==
  /\ p # CaretOf(element)
  /\ element' = IF element.kind = "hierarchical"
                THEN Region(element.nodes, 1, pointAt(element.nodes, p))
                ELSE LinearField(element.value, p)
  /\ lastEvent' = [t |-> "select"]
  /\ UNCHANGED <<storage, engineVars, inflight, chordVars, page, manager>>

\* a focus change elsewhere empties the selection
removeAllRanges ==
  /\ element.kind = "hierarchical"
  /\ element.rangeCount > 0
  /\ element' = Region(element.nodes, 0, Point(0, 0))
  /\ lastEvent' = [t |-> "select"]
  /\ UNCHANGED <<storage, engineVars, inflight, chordVars, page, manager>>

NextSession ==
  \/ initialize
  \/ loadSettings
  \/ \E c \in TypedChars : input(c)
  \/ \E event \in SessionKeyEvents : keydownOn(event)
  \/ \E p \in {0, Len(TextOf(element))} : placeCaret(p)
  \/ removeAllRanges

SpecSession == InitSession /\ [][NextSession]_vars

----------------------------------------------------------------------------
(* SpecSplit: text-change events, Ctrl+M and caret moves on a contenteditable
   region alone, with room for a word behind the text that a shortcut has
   inserted: the insertion leaves the region's text in several text nodes. *)

SplitChars == {"a", " "}

SplitOpen ==
  /\ Len(TextOf(element)) < MaxSplitLen
  /\ Len(element.nodes) <= MaxNodes

InitSplit ==
  /\ storage = SessionConfig
  /\ EngineConstructed
  /\ inflight = <<>>
  /\ NoKeyDown
  /\ ScriptLoaded
  /\ element = Region(<<>>, 1, Point(0, 0))
  /\ ManagerConstructed

NextSplit ==
  \/ initialize
  \/ \E c \in SplitChars : SplitOpen /\ inputEvent(c)
  \/ SplitOpen /\ keydownEvent(KeyDown(<<"m">>, TRUE))
  \/ \E p \in {0, Len(TextOf(element))} : placeCaret(p)

SpecSplit == InitSplit /\ [][NextSplit]_vars

----------------------------------------------------------------------------
(* SpecWord: typing at the end of an input or textarea, with one stored
   trigger and every combination of the punctuationAware and caseSensitive
   settings in storage. *)

WordChars == {"a", "A", ".", " "}

\* valid triggers of 2 characters: plain, with an upper-case letter, ending
\* in a punctuation character
WordTriggers == { <<"a", "a">>, <<"A", "a">>, <<"a", ".">> }

WordConfigs ==
  { [expansions |-> << Expansion(String(trigger), String(<<"X", "Y">>)) >>,
     shortcuts |-> <<>>,
     settings |-> [punctuationAware |-> punctuationAware,
                   caseSensitive |-> caseSensitive]] :
      trigger \in WordTriggers, punctuationAware \in BOOLEAN,
      caseSensitive \in BOOLEAN }

InitWord ==
  /\ storage \in WordConfigs
  /\ EngineConstructed
  /\ inflight = <<>>
  /\ NoKeyDown
  /\ ScriptLoaded
  /\ FieldConstructed

NextWord ==
  \/ initialize
  \/ loadSettings
  \/ \E c \in WordChars : input(c)

SpecWord == InitWord /\ [][NextWord]_vars

----------------------------------------------------------------------------
(* SpecEmail: text-change events, Enter and Ctrl+M on an input whose type
   has no selection API (type="email"): _isEditableElement accepts every
   input element, whatever its type.  Key-down events also arrive with
   another element of the page as their target: the listener is on the
   document. *)

EmailChars == {"a", "b", "."}

InitEmail ==
  /\ storage = SessionConfig
  /\ EngineConstructed
  /\ inflight = <<>>
  /\ NoKeyDown
  /\ ScriptLoaded
  /\ element = EmailField(<<>>)
  /\ ManagerConstructed

\* what the 'keydown' listener did with an event whose target is not the
\* field: the field stays as it is
handledElsewhere(event, done) ==
  /\ element' = element
  /\ manager' = done.manager
  /\ lastEvent' = [t |-> "keydown elsewhere", data |-> event,
                   tick |-> IF lastEvent.t = "keydown elsewhere"
                            THEN 1 - lastEvent.tick ELSE 0,
                   dispatched |-> done.dispatched,
                   prevented |-> done.prevented]

\* a key-down event on a non-editable element of the page
keydownElsewhere(event) ==
  /\ handledElsewhere(event, keydown(Handling(Elsewhere, manager), event))
  /\ UNCHANGED <<storage, engineVars, inflight, chordVars, page>>

EmailKeyEvents == {KeyDown(Enter, FALSE), KeyDown(<<"m">>, TRUE)}

NextEmail ==
  \/ initialize
  \/ loadSettings
  \/ \E c \in EmailChars : input(c)
  \/ \E event \in EmailKeyEvents : keydownOn(event)
  \/ \E event \in EmailKeyEvents : keydownElsewhere(event)

SpecEmail == InitEmail /\ [][NextEmail]_vars

----------------------------------------------------------------------------
(* SpecLong: text-change and Enter key-down events on a field of either
   kind that holds one word of about maxTriggerLength characters, with the
   caret at its end. *)

Repeat(c, n) == [i \in 1..n |-> c]

\* words of maxTriggerLength - 1 .. maxTriggerLength + 1 characters, told
\* apart at their first or at their last character
LongWords ==
  UNION { { <<"b">> \o Repeat("a", n - 1), Repeat("a", n - 1) \o <<"b">> } :
          n \in (maxTriggerLength - 1)..(maxTriggerLength + 1) }

\* the field still holds a long text, has room for one more event and, in
\* a region, the edits so far have left few text nodes
LongOpen ==
  /\ Len(TextOf(element)) >= maxTriggerLength - 1
  /\ Len(TextOf(element)) < MaxLongLen
  /\ element.kind = "hierarchical" => Len(element.nodes) <= MaxNodes

InitLong ==
  /\ storage = SessionConfig
  /\ EngineConstructed
  /\ inflight = <<>>
  /\ NoKeyDown
  /\ ScriptLoaded
  /\ \E w \in LongWords :
       element \in {LinearField(w, Len(w)), Region(<<w>>, 1, Point(1, Len(w)))}
  /\ ManagerConstructed

inputLong(c) ==
  /\ LongOpen
  /\ LET typed == typeInto(element, c)
     IN handled("input", <<c>>,
                _handleInput(Handling(typed, manager), InputEvent(String(<<c>>))))
  /\ UNCHANGED <<storage, engineVars, inflight, chordVars, page>>

keydownLong(event) ==
  /\ LongOpen
  /\ handled("keydown", event, keydown(Handling(element, manager), event))
  /\ UNCHANGED <<storage, engineVars, inflight, chordVars, page>>

NextLong ==
  \/ initialize
  \/ loadSettings
  \/ \E c \in TypedChars : inputLong(c)
  \/ keydownLong(KeyDown(Enter, FALSE))

SpecLong == InitLong /\ [][NextLong]_vars

----------------------------------------------------------------------------
(* SpecNested: the handling of one event, one listener run at a time.  The
   edit of _replaceText ends in element.dispatchEvent(new Event('input')),
   which runs the 'input' listener again before it returns; here each such
   run is a step of its own, taken while the run that dispatched waits.
   lastEvent is the event in handling: while a dispatch is under way it
   holds the kind of the first event (of), the replacement of its match
   (outer, which the first run assigns to this.buffer when all have
   returned) and the parity of the nesting depth (tick). *)

NestedChars == {"a", "b", " "}

\* a trigger whose replacement is the trigger again, and an ordinary one
NestedConfig ==
  [expansions |-> << Expansion(String(<<"a", "a">>), String(<<"a", "a">>)),
                     Expansion(String(<<"a", "b">>), String(<<"X", "Y">>)) >>,
   shortcuts |-> <<>>,
   settings |-> [punctuationAware |-> FALSE, caseSensitive |-> FALSE]]

\* F applied to the value of e: a result held in a local (const trigger,
\* const match) is computed once
Once(F(_), e) == CHOOSE r \in {F(x) : x \in {e}} : TRUE

\* where one run of a listener stands when it returns or reaches the
\* dispatch: the state it leaves, its match, and whether it dispatches
Level(st, match, dispatches) ==
  [st |-> st, match |-> match, dispatches |-> dispatches]

\* _replaceText(element, match) up to element.dispatchEvent: no dispatch
\* without a range, nor when the edit throws
edited(replaced, match) == Level(replaced, match, ~replaced.threw)

replaceToDispatch(st, match) ==
  IF st.element.kind = "hierarchical"
  THEN IF st.element.rangeCount = 0 THEN Level(st, match, FALSE)
       ELSE edited(replaceInRegion(st, match), match)
  ELSE edited(replaceInValue(st, match), match)

\* if (!match) return; otherwise _replaceText
matchToDispatch(st, match) ==
  IF match = NoMatch THEN Level(st, NoMatch, FALSE)
  ELSE replaceToDispatch(st, match)

\* if (!trigger) return; otherwise the lookup
triggerToDispatch(ex) ==
  IF ex.trigger = NoTrigger THEN Level(ex.st, NoMatch, FALSE)
  ELSE matchToDispatch(ex.st, findExpansionMatch(ex.trigger.s))

\* _checkAndApplyExpansion(element) up to the dispatch
checkToDispatch(st) == Once(triggerToDispatch, _extractTrigger(st))

\* _handleInput(event) up to the dispatch
checkInputToDispatch(updated, event) ==
  IF _shouldCheckExpansion(updated, event) THEN checkToDispatch(updated)
  ELSE Level(updated, NoMatch, FALSE)

inputToDispatch(st, event) ==
  Once(LAMBDA updated : checkInputToDispatch(updated, event), _updateBuffer(st))

\* the Enter branch of the 'keydown' listener up to the dispatch
enterToDispatch(st) ==
  checkToDispatch([_updateBuffer(st) EXCEPT !.manager.lastDelimiter = "enter"])

Dispatching == lastEvent.t = "dispatchEvent"

nextTick == IF lastEvent.t \in {"input", "keydown", "dispatchEvent"}
            THEN 1 - lastEvent.tick ELSE 0

\* what the runs still on the stack do to the manager when the innermost
\* has returned: each one that matched assigns its replacement to
\* this.buffer, the first run last, and the Enter listener clears
\* _lastDelimiter unless its own edit threw
returned(m, type, lv, outer) ==
  [m EXCEPT !.buffer = IF outer # NoMatch THEN outer.replacement
                       ELSE IF lv.match # NoMatch /\ ~lv.st.threw
                       THEN lv.match.replacement
                       ELSE @,
            !.lastDelimiter = IF type = "keydown" /\ (outer # NoMatch \/ ~lv.st.threw)
                              THEN "null" ELSE @]

\* the step a run ends with: it waits in dispatchEvent, or all runs return
runEnds(type, lv, outer) ==
  /\ element' = lv.st.element
  /\ IF lv.dispatches
     THEN /\ manager' = lv.st.manager
          /\ lastEvent' = [t |-> "dispatchEvent", of |-> type, tick |-> nextTick,
                           outer |-> IF outer # NoMatch THEN outer ELSE lv.match]
     ELSE /\ manager' = returned(lv.st.manager, type, lv, outer)
          /\ lastEvent' = [t |-> type, tick |-> nextTick]

NestedOpen ==
  /\ ~Dispatching
  /\ Len(TextOf(element)) < MaxSessionLen
  /\ element.kind = "hierarchical" => Len(element.nodes) <= MaxNodes

\* a text-change event arrives while no listener runs
inputArrives(c) ==
  /\ NestedOpen
  /\ runEnds("input",
             inputToDispatch(Handling(typeInto(element, c), manager),
                             InputEvent(String(<<c>>))),
             NoMatch)
  /\ UNCHANGED <<storage, engineVars, inflight, chordVars, page>>

\* an Enter key-down arrives while no listener runs
enterArrives ==
  /\ NestedOpen
  /\ runEnds("keydown", enterToDispatch(Handling(element, manager)), NoMatch)
  /\ UNCHANGED <<storage, engineVars, inflight, chordVars, page>>

\* dispatchEvent runs the 'input' listener for the synthetic event, whose
\* data is undefined
listenerRuns ==
  /\ Dispatching
  /\ runEnds(lastEvent.of,
             inputToDispatch(Handling(element, manager), InputEvent(Undefined)),
             lastEvent.outer)
  /\ UNCHANGED <<storage, engineVars, inflight, chordVars, page>>

InitNested ==
  /\ storage = NestedConfig
  /\ EngineConstructed
  /\ inflight = <<>>
  /\ NoKeyDown
  /\ ScriptLoaded
  /\ element \in {LinearField(<<>>, 0), Region(<<>>, 1, Point(0, 0))}
  /\ ManagerConstructed

NextNested ==
  \/ ~Dispatching /\ initialize
  \/ \E c \in NestedChars : inputArrives(c)
  \/ enterArrives
  \/ listenerRuns
  \/ \E p \in {0, Len(TextOf(element))} : ~Dispatching /\ placeCaret(p)

SpecNested == InitNested /\ [][NextNested]_vars

\* dispatchEvent is synchronous: the listener it calls runs at once
SpecNestedFair == SpecNested /\ WF_vars(listenerRuns)

\* C31: the handling of a single key-down or text-change event terminates,
\* the re-entrant handling of the synthetic input events included: whenever
\* a dispatch is under way, a state follows in which all listeners have
\* returned.
C31_HandlingTerminates == Dispatching ~> ~Dispatching

----------------------------------------------------------------------------
(* Claims about the linear-string field *)

\* the field as the last 'input' handler found it, cut at the typed character
TypedValue == lastEvent.element.value
TypedCaret == lastEvent.element.selectionStart
TextBeforeTyped == SubSeq(TypedValue, 1, TypedCaret - 1)
TextAfterCaret == SubSeq(TypedValue, TypedCaret + 1, Len(TypedValue))

\* the number of characters in front of the word the typed character ends
WordStart ==
  LET B == {i \in DOMAIN TextBeforeTyped : TextBeforeTyped[i] \in {" ", "\n"}}
  IN IF B = {} THEN 0 ELSE CHOOSE i \in B : \A j \in B : j <= i

TextBeforeWord == SubSeq(TextBeforeTyped, 1, WordStart)
RawWord == SubSeq(TextBeforeTyped, WordStart + 1, Len(TextBeforeTyped))

StrippedPunctuation ==
  IF lastEvent.punctuationAware /\ RawWord # <<>>
     /\ RawWord[Len(RawWord)] \in PunctuationChars
  THEN <<RawWord[Len(RawWord)]>>
  ELSE <<>>

TriggerWord == SubSeq(RawWord, 1, Len(RawWord) - Len(StrippedPunctuation))

\* the lookup of the word in the index of that moment
WordLookup ==
  findExpansionMatchIn(lastEvent.expansions, lastEvent.caseSensitive, TriggerWord)

\* a space was typed right after a word of 2 to 50 characters that is a trigger
SpaceAfterTriggerWord ==
  /\ lastEvent.t = "input"
  /\ lastEvent.data = <<" ">>
  /\ Len(TriggerWord) >= minTriggerLength
  /\ Len(TriggerWord) <= maxTriggerLength
  /\ WordLookup # NoMatch
  /\ WordLookup.startIndex = 0

\* C10: in a linear-string field, when a space is typed right after a word
\* that matches a trigger, the new value is the text before the word, the
\* replacement, the stripped punctuation (if any), one space and the text
\* that followed the caret, and the caret is right after that space; the text
\* before the word and after the caret is unchanged.
C10_SpaceSplice ==
  SpaceAfterTriggerWord =>
    /\ element.value = TextBeforeWord \o WordLookup.replacement
                         \o StrippedPunctuation \o <<" ">> \o TextAfterCaret
    /\ element.selectionStart =
         Len(TextBeforeWord) + Len(WordLookup.replacement)
           + Len(StrippedPunctuation) + 1

\* "a aa. a" became "a XY. a": text on both sides and a stripped full stop
C10_Witness ==
  /\ SpaceAfterTriggerWord
  /\ TextBeforeWord # <<>>
  /\ TextAfterCaret # <<>>
  /\ StrippedPunctuation # <<>>
  /\ element.value # TypedValue

----------------------------------------------------------------------------
(* Spec: the page's event loop.  The popup and the background worker write
   storage; every initialize() call waits for its storage read and resumes in
   a later turn, so several loads can be in flight; each action is one turn. *)

\* lists as the popup saves them
SavedExpansionLists ==
  { <<>>, << Expansion(String(<<"a", "b">>), String(<<"Z">>)) >> }
SavedShortcutLists == { <<>>, << Shortcut(String(CtrlM), String(<<"T">>)) >> }

\* backup files whose lists hold a null element (importSettings tests
\* Array.isArray only)
Backups ==
  { [expansions |-> << Expansion(String(<<"b">>), String(<<"Y">>)), Null >>,
     shortcuts |-> << Shortcut(String(CtrlM), String(<<"T">>)) >>,
     settings |-> [caseSensitive |-> TRUE]],
    [expansions |-> << Expansion(String(<<"a", "b">>), String(<<"Z">>)) >>,
     shortcuts |-> << Null >>,
     settings |-> [caseSensitive |-> FALSE]] }

Requested == [phase |-> "requested"]
Read(data) == [phase |-> "read", data |-> data]

\* seq without its i-th element
Remove(seq, i) == SubSeq(seq, 1, i - 1) \o SubSeq(seq, i + 1, Len(seq))

\* a fresh store, and the script's own initialize() call on load
Init ==
  /\ storage = [expansions |-> <<>>, shortcuts |-> <<>>,
                settings |-> [caseSensitive |-> FALSE]]
  /\ EngineConstructed
  /\ inflight = << Requested >>
  /\ NoKeyDown
  /\ ScriptLoaded
  /\ FieldConstructed

\* the popup's importSettings: one write of the backup's global part, no message
importSettings(backup) ==
  /\ storage' = backup
  /\ UNCHANGED <<engineVars, inflight, chordVars, page, fieldVars>>

\* the background worker's saveExpansions (global scope): write, then the
\* expansionsUpdated message makes the content script call initialize()
saveExpansions(list) ==
  /\ Len(inflight) < MaxInFlight
  /\ storage' = [storage EXCEPT !.expansions = list]
  /\ inflight' = Append(inflight, Requested)
  /\ UNCHANGED <<engineVars, chordVars, page, fieldVars>>

\* the background worker's saveShortcuts (global scope), likewise
saveShortcuts(list) ==
  /\ Len(inflight) < MaxInFlight
  /\ storage' = [storage EXCEPT !.shortcuts = list]
  /\ inflight' = Append(inflight, Requested)
  /\ UNCHANGED <<engineVars, chordVars, page, fieldVars>>

\* _reinitializeEngine() after the start-up poll or a message without a write here
_reinitializeEngine ==
  /\ Len(inflight) < MaxInFlight
  /\ inflight' = Append(inflight, Requested)
  /\ UNCHANGED <<storage, engineVars, chordVars, page, fieldVars>>

\* the browser takes the snapshot that the i-th call's storage.get will deliver
storageGet(i) ==
  /\ inflight[i] = Requested
  /\ inflight' = [inflight EXCEPT ![i] = Read(_getStorageData(storage))]
  /\ UNCHANGED <<storage, engineVars, chordVars, page, fieldVars>>

\* the i-th call's callback resolves the promise and initialize() resumes
initializeContinue(i) ==
  /\ inflight[i].phase = "read"
  /\ initializeResume(inflight[i].data)
  /\ inflight' = Remove(inflight, i)
  /\ UNCHANGED <<storage, chordVars, page, fieldVars>>

Next ==
  \/ \E backup \in Backups : importSettings(backup)
  \/ \E list \in SavedExpansionLists : saveExpansions(list)
  \/ \E list \in SavedShortcutLists : saveShortcuts(list)
  \/ _reinitializeEngine
  \/ \E i \in DOMAIN inflight : storageGet(i)
  \/ \E i \in DOMAIN inflight : initializeContinue(i)

Spec == Init /\ [][Next]_vars

----------------------------------------------------------------------------
(* Claims about the event loop (Spec) *)

\* the trigger map, the chord map and the setting are those a load of data
\* leaves behind when it runs to its end (the keys folded either way)
StemFrom(data) ==
  /\ \E c \in BOOLEAN : expansions = _buildTrie(data.expansions, c).map
  /\ shortcuts = _buildShortcuts(data.shortcuts).map
  /\ settings.caseSensitive = data.settings.caseSensitive

\* C7: between any two turns of the event loop, where a key-down or
\* text-change handler can run, the trigger map, the chord map and the
\* case-sensitivity setting stem from one and the same completed load (or are
\* still as constructed, or emptied after a failed load), also with several
\* loads in flight and with a load that fails part-way.
C7_OneCompletedLoad ==
  \/ completed # NoData /\ StemFrom(completed)
  \/ expansions = EmptyMap /\ shortcuts = EmptyMap

----------------------------------------------------------------------------
(* Claims about a field of either kind (SpecSession).  A step of the
   specification is an event when lastEvent changes to a text-change or a
   key-down; the field at the start of the handler is then Found. *)

EventStep == lastEvent' # lastEvent /\ lastEvent'.t \in {"input", "keydown"}
SpaceStep == EventStep /\ lastEvent'.t = "input" /\ lastEvent'.data = <<" ">>
EnterStep ==
  EventStep /\ lastEvent'.t = "keydown" /\ lastEvent'.data.key = String(Enter)
ChordStep ==
  EventStep /\ lastEvent'.t = "keydown" /\ lastEvent'.data.key # String(Enter)

Found == IF lastEvent'.t = "input" THEN typeInto(element, lastEvent'.data[1])
         ELSE element

\* the caret the handler works with: the end of the text without a range
FoundCaret == IF CaretOf(Found) < 0 THEN Len(TextOf(Found)) ELSE CaretOf(Found)

\* the text before the delimiter: a typed space is in the field, Enter is not
FoundBefore ==
  SubSeq(TextOf(Found), 1, FoundCaret - (IF lastEvent'.t = "input" THEN 1 ELSE 0))
FoundAfter == SubSeq(TextOf(Found), FoundCaret + 1, Len(TextOf(Found)))

\* the number of characters in front of the last word of text
BreakOf(text) ==
  LET B == {i \in DOMAIN text : text[i] \in {" ", "\n"}}
  IN IF B = {} THEN 0 ELSE CHOOSE i \in B : \A j \in B : j <= i

FoundRawWord == SubSeq(FoundBefore, BreakOf(FoundBefore) + 1, Len(FoundBefore))
FoundBeforeWord == SubSeq(FoundBefore, 1, BreakOf(FoundBefore))

FoundPunctuation ==
  IF manager.settings.punctuationAware /\ FoundRawWord # <<>>
     /\ FoundRawWord[Len(FoundRawWord)] \in PunctuationChars
  THEN <<FoundRawWord[Len(FoundRawWord)]>>
  ELSE <<>>

FoundWord == SubSeq(FoundRawWord, 1, Len(FoundRawWord) - Len(FoundPunctuation))

\* the word is a stored trigger as a whole
FoundLookup == findExpansionMatch(FoundWord)
FoundWordIsTrigger ==
  /\ Len(FoundWord) >= minTriggerLength
  /\ Len(FoundWord) <= maxTriggerLength
  /\ FoundLookup # NoMatch
  /\ FoundLookup.startIndex = 0

\* the text in front of the caret after the step
BeforeCaretAfter == SubSeq(TextOf(element'), 1, CaretOf(element'))

EndsWith(text, tail) ==
  /\ Len(text) >= Len(tail)
  /\ SubSeq(text, Len(text) - Len(tail) + 1, Len(text)) = tail

\* C11: with punctuationAware on, in a field of either kind, after a space
\* or Enter behind a trigger followed by one punctuation character, that
\* character stands in the text right after the replacement: the text in
\* front of the caret ends with it (Enter) or with it and the space (space).
C11_PunctuationKept ==
  [][ ( /\ SpaceStep \/ EnterStep
        /\ CaretOf(Found) >= 0
        /\ FoundPunctuation # <<>>
        /\ FoundWordIsTrigger )
      => EndsWith(BeforeCaretAfter,
                  FoundPunctuation \o (IF lastEvent'.t = "input" THEN <<" ">> ELSE <<>>))
    ]_vars

\* the cursorOffset the handler works with after its mirror update of the
\* field el: the caret, or the end of the text when the caret offset is 0
\* in an input or the selection of a region holds no range
CursorIn(el) ==
  IF el.kind = "linear"
  THEN IF el.selectionStart # 0 THEN el.selectionStart ELSE Len(el.value)
  ELSE IF el.rangeCount > 0 THEN CaretOf(el) ELSE Len(TextOf(el))

\* the word the handler extracts in front of the delimiter, without the
\* punctuation character it strips
LastWord(text) == LET break == BreakOf(text) IN SubSeq(text, break + 1, Len(text))
ExtractedWord ==
  LET found == Found
      raw == LastWord(SubSeq(TextOf(found), 1,
                             CursorIn(found) - (IF lastEvent'.t = "input" THEN 1 ELSE 0)))
  IN IF /\ manager.settings.punctuationAware
        /\ raw # <<>>
        /\ raw[Len(raw)] \in PunctuationChars
     THEN SubSeq(raw, 1, Len(raw) - 1)
     ELSE raw

\* C12: when the word in front of a space or of Enter, after the stripping
\* of a punctuation character, has fewer than 2 characters, the event makes
\* no trigger lookup and leaves the field as it found it.
C12_ShortWordIgnored ==
  [][ ( /\ SpaceStep \/ EnterStep
        /\ Len(ExtractedWord) < minTriggerLength )
      => ( /\ lastEvent'.calls = <<>>
           /\ lastEvent'.dispatched = <<>>
           /\ element' = Found )
    ]_vars

\* a space typed behind "a." with the index loaded: the stripped word is "a"
C12_Witness ==
  /\ isReady
  /\ manager.settings.punctuationAware
  /\ lastEvent.t = "input"
  /\ lastEvent.data = <<" ">>
  /\ TextOf(element) = <<"a", ".", " ">>
  /\ CaretOf(element) = 3
  /\ lastEvent.calls = <<>>

\* C13: when the word in front of a space or of Enter has more than 50
\* characters, the first lookup of the event is made with exactly the last
\* 50 characters of that word; and no lookup of any event is made with more
\* than 50 characters.
C13_LongWordTruncated ==
  [][ EventStep =>
        /\ \A i \in DOMAIN lastEvent'.calls :
              Len(lastEvent'.calls[i].text) <= maxTriggerLength
        /\ ( /\ SpaceStep \/ EnterStep
             /\ Len(ExtractedWord) > maxTriggerLength )
           => /\ lastEvent'.calls # <<>>
              /\ lastEvent'.calls[1].text =
                   SubSeq(ExtractedWord, Len(ExtractedWord) - maxTriggerLength + 1,
                          Len(ExtractedWord))
    ]_vars

\* a space typed behind the 51-character word "b" "a"..."a": the lookup was
\* made with the 50 characters "a"
C13_Witness ==
  /\ lastEvent.t = "input"
  /\ lastEvent.data = <<" ">>
  /\ lastEvent.calls # <<>>
  /\ lastEvent.calls[1].text = Repeat("a", maxTriggerLength)
  /\ Len(TextOf(element)) > maxTriggerLength
  /\ TextOf(element)[1] = "b"
  /\ \A i \in DOMAIN TextOf(element) : TextOf(element)[i] # "."

\* the text in front of the word, the replacement and the stripped
\* punctuation character
ReplacedBefore == FoundBeforeWord \o FoundLookup.replacement \o FoundPunctuation

\* C14: an Enter key-down behind a trigger word leaves, when its handler
\* ends, the replacement and the stripped punctuation in place of the word
\* up to the caret, the caret right behind them, no delimiter character
\* added or removed, and the default action of the key not prevented.
C14_EnterReplacesInPlace ==
  [][ ( /\ EnterStep
        /\ CaretOf(Found) >= 0
        /\ FoundWordIsTrigger )
      => ( /\ TextOf(element') = ReplacedBefore \o FoundAfter
           /\ CaretOf(element') = Len(ReplacedBefore)
           /\ ~lastEvent'.prevented )
    ]_vars

\* C15: in the handling of one text-change or Enter key-down event, a
\* lookup that finds a trigger is the last lookup of the event (the text is
\* not scanned again after a replacement), and the mirrored text is the
\* replacement text when the handler ends.
C15_OneReplacementPerEvent ==
  [][ ( /\ EventStep
        /\ ~ChordStep
        /\ ~lastEvent'.uncaught )
      => \A i \in DOMAIN lastEvent'.calls :
           lastEvent'.calls[i].match # NoMatch
             => /\ i = Len(lastEvent'.calls)
                /\ manager'.buffer = lastEvent'.calls[i].match.replacement
    ]_vars

\* the chord of the key-down event of the step and the text stored for it
StepChord == buildKeyCombination(lastEvent'.data)
StepChordText == getShortcutMatch(StepChord.s)
ChordResolves ==
  /\ EventStep
  /\ lastEvent'.t = "keydown"
  /\ isReady
  /\ StepChord # NoKeyCombination
  /\ StepChordText # NoText

\* C16: a key-down on the field, with the engine ready and a caret in the
\* field, whose chord resolves to a stored text has its default action
\* prevented, the text inserted at the caret, the caret moved behind it,
\* and the input and change notifications dispatched, whatever the key is.
C16_ChordInserted ==
  [][ ( /\ ChordResolves
        /\ CaretOf(element) >= 0 )
      => ( /\ lastEvent'.prevented
           /\ TextOf(element') =
                SubSeq(TextOf(element), 1, CaretOf(element)) \o StepChordText.s
                  \o SubSeq(TextOf(element), CaretOf(element) + 1, Len(TextOf(element)))
           /\ CaretOf(element') = CaretOf(element) + Len(StepChordText.s)
           /\ lastEvent'.dispatched = <<"input", "change">> )
    ]_vars

NothingFound ==
  \A i \in DOMAIN lastEvent'.calls : lastEvent'.calls[i].match = NoMatch

\* C18: a space or Enter event whose extraction yields no word, or whose
\* lookup finds nothing, leaves the field's text and caret as they were,
\* dispatches no notification, and leaves the pending delimiter and the
\* pending punctuation (an unset one counts as empty) as they were.
C18_NoMatchChangesMirrorOnly ==
  [][ ( /\ SpaceStep \/ EnterStep
        /\ NothingFound )
      => ( /\ element' = Found
           /\ lastEvent'.dispatched = <<>>
           /\ manager'.lastDelimiter = manager.lastDelimiter
           /\ pendingPunctuationOf(manager') = pendingPunctuationOf(manager) )
    ]_vars

\* C19: no handler of a text-change or key-down event ends with an
\* exception, whatever the kind of the field, its selection and the index.
C19_NoUncaughtException ==
  lastEvent.t \in {"input", "keydown"} => ~lastEvent.uncaught

\* C20: when a lookup of a space or Enter event finds a trigger in a region
\* whose selection holds no range, the region is left as the event found
\* it, the handler ends without an exception and nothing is dispatched.
C20_NoRangeAbandons ==
  [][ ( /\ SpaceStep \/ EnterStep
        /\ Found.kind = "hierarchical"
        /\ Found.rangeCount = 0
        /\ ~NothingFound )
      => ( /\ element' = Found
           /\ ~lastEvent'.uncaught
           /\ lastEvent'.dispatched = <<>> )
    ]_vars

\* a space behind the trigger "aa" in a region without a range: found and
\* not replaced
C20_Witness ==
  /\ element.kind = "hierarchical"
  /\ element.rangeCount = 0
  /\ lastEvent.t = "input"
  /\ lastEvent.data = <<" ">>
  /\ lastEvent.calls # <<>>
  /\ lastEvent.calls[1].match # NoMatch
  /\ lastEvent.calls[1].match.trigger = <<"a", "a">>
  /\ TextOf(element) = <<"a", "a", " ">>

\* C27: a text-change event or an Enter key-down on a linear-string field
\* that replaces nothing leaves the mirror as its mirror update made it:
\* the mirrored text is the field's value and the cursor offset is the
\* field's caret index, wherever the caret is from 0 to the end.
C27_MirrorIsFieldState ==
  [][ ( /\ EventStep
        /\ ~ChordStep
        /\ Found.kind = "linear"
        /\ NothingFound )
      => ( /\ manager'.buffer = Found.value
           /\ manager'.cursorPos = Found.selectionStart )
    ]_vars

\* C28: in a region with a caret, a space typed behind a trigger (and the
\* punctuation character stripped from it, if any) leaves the text in front
\* of the word, the replacement in the place of the word and of that
\* character, the typed space and the text behind the caret, with the caret
\* right behind that space.
C28_RegionSpaceReplacement ==
  [][ ( /\ SpaceStep
        /\ Found.kind = "hierarchical"
        /\ CaretOf(Found) >= 0
        /\ FoundWordIsTrigger )
      => ( /\ TextOf(element') =
                FoundBeforeWord \o FoundLookup.replacement \o <<" ">> \o FoundAfter
           /\ CaretOf(element') =
                Len(FoundBeforeWord) + Len(FoundLookup.replacement) + 1 )
    ]_vars

\* C29: as long as no load has completed (the engine is not ready), a
\* text-change or key-down event on the field leaves the field as it found
\* it, dispatches nothing and does not prevent the key's default action.
C29_NothingBeforeFirstLoad ==
  [][ ( EventStep /\ ~isReady )
      => ( /\ element' = Found
           /\ lastEvent'.dispatched = <<>>
           /\ ~lastEvent'.prevented )
    ]_vars

\* before the first load, "aa" and a space stand unreplaced in the field
\* and Ctrl+M has been pressed behind them
C29_Witness ==
  /\ ~isReady
  /\ TextOf(element) = <<"a", "a", " ">>
  /\ lastEvent.t = "keydown"
  /\ lastEvent.data.key = String(<<"m">>)
  /\ ~lastEvent.prevented

----------------------------------------------------------------------------
(* SpecStart: the content script from its last statements on.  The engine's
   own initialize() is in flight; the readiness poll and the fallback timer
   decide when init() attaches the listeners; the background worker's saves
   write storage and send their message to the tab, which only a listener
   that init() has registered receives.  Every storage.sync.get delivers its
   result in a later turn, so the reads of init(), of the settingsUpdated
   listener, of _reinitializeEngine() and of initialize() are in flight one
   beside the other; each action is one turn.  Storage holds the global lists,
   the settings and the two per-domain tables (an absent table reads as {}). *)

\* window.location.hostname of the page, and the domain of another page
currentDomain == <<"e">>
otherDomain == <<"o">>

\* initialize()'s default parameter
NoDomain == [t |-> "null"]

CtrlMText(text) == << Shortcut(String(CtrlM), String(text)) >>

StartStorage ==
  [expansions |-> << Expansion(String(<<"A", "b">>), String(<<"X">>)) >>,
   shortcuts |-> CtrlMText(<<"T">>),
   settings |-> [caseSensitive |-> FALSE, domainScope |-> FALSE],
   expansions_domains |-> EmptyObject,
   shortcuts_domains |-> EmptyObject]

\* what the popup saves
StartExpansionLists ==
  { << Expansion(String(<<"A", "b">>), String(<<"X">>)) >>,
    << Expansion(String(<<"b">>), String(<<"Y">>)) >> }
StartDomainExpansions == << Expansion(String(<<"c">>), String(<<"W">>)) >>
StartDomainShortcuts == CtrlMText(<<"V">>)
StartSettings == [caseSensitive : BOOLEAN, domainScope : BOOLEAN]

\* the storage.sync.get calls in flight
InitRead == [phase |-> "init"]                 \* init(), lines 28-30
SettingsRead == [phase |-> "settingsUpdated"]  \* the listener, lines 360-365
Reinit == [phase |-> "reinit"]                 \* _reinitializeEngine(), line 45
RequestedFor(domain) == [phase |-> "requested", domain |-> domain]
ReadFor(domain, data) == [phase |-> "read", domain |-> domain, data |-> data]

\* a read that takes the domain's shortcuts only beside the domain's expansions
_getStorageDataCoupled(allData, domain) ==
  LET scoped == /\ domain.t = "string"
                /\ domain.s # <<>>
                /\ MapHas(allData.expansions_domains, domain.s)
  IN [expansions |-> IF scoped THEN allData.expansions_domains[domain.s]
                     ELSE allData.expansions,
      shortcuts |-> IF scoped /\ MapHas(allData.shortcuts_domains, domain.s)
                    THEN allData.shortcuts_domains[domain.s]
                    ELSE allData.shortcuts,
      settings |-> allData.settings]

\* _getStorageData(domain): what the promise resolves with
_getStorageDataDomain(allData, domain) ==
  LET scoped == domain.t = "string" /\ domain.s # <<>>
  IN [expansions |-> IF scoped /\ MapHas(allData.expansions_domains, domain.s)
                     THEN allData.expansions_domains[domain.s]
                     ELSE allData.expansions,
      shortcuts |-> IF scoped /\ MapHas(allData.shortcuts_domains, domain.s)
                    THEN allData.shortcuts_domains[domain.s]
                    ELSE allData.shortcuts,
      settings |-> allData.settings]

\* the domain that _reinitializeEngine() hands to initialize()
reinitDomain(result) ==
  IF result.settings.domainScope THEN String(currentDomain) ELSE NoDomain

InitStart ==
  /\ storage = StartStorage
  /\ EngineConstructed
  /\ inflight = << RequestedFor(NoDomain) >>
  /\ NoKeyDown
  /\ ScriptLoaded
  /\ FieldConstructed

\* init() and _reinitializeEngine(), as the poll and the fallback call them
initCalls == << InitRead, Reinit >>

\* a tick of the 50 ms poll
pollTick ==
  /\ page.poll
  /\ IF isReady
     THEN /\ page' = [page EXCEPT !.poll = FALSE, !.inits = @ + 1]
          /\ inflight' = inflight \o initCalls
     ELSE UNCHANGED <<page, inflight>>
  /\ UNCHANGED <<storage, engineVars, chordVars, fieldVars>>

\* the 2000 ms timer
fallback ==
  /\ page.fallback
  /\ IF ~isReady
     THEN /\ page' = [page EXCEPT !.poll = FALSE, !.fallback = FALSE,
                                  !.inits = @ + 1]
          /\ inflight' = inflight \o initCalls
     ELSE /\ page' = [page EXCEPT !.poll = FALSE, !.fallback = FALSE]
          /\ UNCHANGED inflight
  /\ UNCHANGED <<storage, engineVars, chordVars, fieldVars>>

\* one more save by the background worker; its message reaches the tab,
\* where it is dropped without a listener
received(call) ==
  /\ page.saves < MaxSaves
  /\ Len(inflight) < MaxPending
  /\ page' = [page EXCEPT !.saves = @ + 1]
  /\ inflight' = IF page.inits > 0 THEN Append(inflight, call) ELSE inflight

\* the background worker's saveExpansions and its expansionsUpdated message
expansionsUpdated(list, domain) ==
  /\ storage' = IF domain = NoDomain
                THEN [storage EXCEPT !.expansions = list]
                ELSE [storage EXCEPT
                        !.expansions_domains = MapSet(@, domain.s, list)]
  /\ received(Reinit)
  /\ UNCHANGED <<engineVars, chordVars, fieldVars>>

\* the background worker's saveShortcuts and its shortcutsUpdated message
shortcutsUpdated(list, domain) ==
  /\ storage' = IF domain = NoDomain
                THEN [storage EXCEPT !.shortcuts = list]
                ELSE [storage EXCEPT
                        !.shortcuts_domains = MapSet(@, domain.s, list)]
  /\ received(Reinit)
  /\ UNCHANGED <<engineVars, chordVars, fieldVars>>

\* the background worker's saveSettings (no merge) and its settingsUpdated message
settingsUpdated(s) ==
  /\ s # storage.settings
  /\ storage' = [storage EXCEPT !.settings = s]
  /\ received(SettingsRead)
  /\ UNCHANGED <<engineVars, chordVars, fieldVars>>

\* storage.sync delivers the results of its get calls in the order of the
\* calls: the next callback is that of the oldest call in flight, and the
\* snapshot of a call is taken after those of the calls before it
nextCallback(i) == i = 1
nextSnapshot(i) == \A j \in 1..(i - 1) : inflight[j].phase # "requested"

\* the callback of init()'s storage.sync.get(['settings'])
initContinue(i) ==
  /\ inflight[i] = InitRead
  /\ nextCallback(i)
  /\ manager' = [manager EXCEPT !.settings = ObjectAssign(@, storage.settings)]
  /\ inflight' = Remove(inflight, i)
  /\ UNCHANGED <<storage, engineVars, chordVars, page, element, lastEvent>>

\* the callback of the settingsUpdated listener's storage.sync.get(['settings'])
settingsContinue(i) ==
  /\ inflight[i] = SettingsRead
  /\ nextCallback(i)
  /\ manager' = [manager EXCEPT !.settings = ObjectAssign(@, storage.settings)]
  /\ inflight' = [inflight EXCEPT ![i] = Reinit]
  /\ UNCHANGED <<storage, engineVars, chordVars, page, element, lastEvent>>

\* the callback of _reinitializeEngine()'s storage.sync.get(['settings']):
\* expansionEngine.initialize(domain) runs up to its await
reinitContinue(i) ==
  /\ inflight[i] = Reinit
  /\ nextCallback(i)
  /\ inflight' = [inflight EXCEPT ![i] = RequestedFor(reinitDomain(storage))]
  /\ UNCHANGED <<storage, engineVars, chordVars, page, fieldVars>>

\* a storage.sync.get(null) that also rebuilds the trigger map from what it reads
storageGetAllRebuilds(i) ==
  /\ inflight[i].phase = "requested"
  /\ nextSnapshot(i)
  /\ inflight' = [inflight EXCEPT ![i] =
                    ReadFor(@.domain, _getStorageDataDomain(storage, @.domain))]
  /\ expansions' = _buildTrie(storage.expansions, settings.caseSensitive).map
  /\ UNCHANGED <<storage, shortcuts, settings, isReady, loaded, completed,
                 chordVars, page, fieldVars>>

\* the browser takes the snapshot that storage.sync.get(null) will deliver
storageGetAll(i) ==
  /\ inflight[i].phase = "requested"
  /\ nextSnapshot(i)
  /\ inflight' = [inflight EXCEPT ![i] =
                    ReadFor(@.domain, _getStorageDataDomain(storage, @.domain))]
  /\ UNCHANGED <<storage, engineVars, chordVars, page, fieldVars>>

\* the callback resolves the promise and initialize(domain) resumes
initializeResumed(i) ==
  /\ inflight[i].phase = "read"
  /\ nextCallback(i)
  /\ initializeResume(inflight[i].data)
  /\ inflight' = Remove(inflight, i)
  /\ UNCHANGED <<storage, chordVars, page, fieldVars>>

StartDomains == {NoDomain, String(currentDomain), String(otherDomain)}

NextStart ==
  \/ pollTick
  \/ fallback
  \/ \E list \in StartExpansionLists : expansionsUpdated(list, NoDomain)
  \/ \E d \in StartDomains \ {NoDomain} :
       expansionsUpdated(StartDomainExpansions, d)
  \/ \E d \in StartDomains : shortcutsUpdated(StartDomainShortcuts, d)
  \/ \E s \in StartSettings : settingsUpdated(s)
  \/ \E i \in DOMAIN inflight : initContinue(i)
  \/ \E i \in DOMAIN inflight : settingsContinue(i)
  \/ \E i \in DOMAIN inflight : reinitContinue(i)
  \/ \E i \in DOMAIN inflight : storageGetAll(i)
  \/ \E i \in DOMAIN inflight : initializeResumed(i)

SpecStart == InitStart /\ [][NextStart]_vars

\* the timers fire: a poll tick that would call init() comes within 50 ms,
\* the fallback after 2000 ms; no load is required to complete
SpecStartFair == SpecStart /\ WF_vars(pollTick) /\ WF_vars(fallback)

----------------------------------------------------------------------------
(* SpecPage: the page after its start-up, with the reloads that the saves of
   the global lists start and the user typing into one input of the page. *)

PageExpansionLists ==
  { <<>>, << Expansion(String(<<"a", "a">>), String(<<"X">>)) >> }
PageShortcutLists == { <<>>, CtrlMText(<<"T">>) }
PageChars == {"a", " "}

PageStorage ==
  [StartStorage EXCEPT
     !.expansions = << Expansion(String(<<"a", "a">>), String(<<"X">>)) >>,
     !.shortcuts = <<>>]

\* the page when its start-up has run to the end: the poll has called
\* init() and _reinitializeEngine(), and every read has been delivered
PageData == _getStorageDataDomain(PageStorage, NoDomain)
StartedUp ==
  /\ storage = PageStorage
  /\ expansions = _buildTrie(PageData.expansions, FALSE).map
  /\ shortcuts = _buildShortcuts(PageData.shortcuts).map
  /\ settings = ObjectAssign([caseSensitive |-> FALSE], PageData.settings)
  /\ isReady = TRUE
  /\ loaded = [done |-> TRUE, data |-> PageData,
               caseSensitiveAtBuild |-> FALSE, threw |-> FALSE]
  /\ completed = PageData
  /\ inflight = <<>>
  /\ NoKeyDown
  /\ page = [poll |-> FALSE, fallback |-> TRUE, inits |-> 1, saves |-> 0]
  /\ element = LinearField(<<>>, 0)
  /\ manager = [buffer |-> <<>>, cursorPos |-> 0, lastDelimiter |-> "null",
                pendingPunctuation |-> Undefined,
                settings |-> ObjectAssign([punctuationAware |-> FALSE,
                                           caseSensitive |-> FALSE],
                                          PageStorage.settings)]
  /\ lastEvent = NoEvent

InitPage == StartedUp

\* the listeners of _attachListeners() exist and the field has room
Listening ==
  /\ page.inits > 0
  /\ Len(TextOf(element)) < MaxPageLen

\* the field loses the focus: the 'blur' listener (activeElement, which no
\* handler reads, is not part of the manager's state here)
blur ==
  /\ page.inits > 0
  /\ lastEvent.t # "blur"
  /\ manager' = [manager EXCEPT !.buffer = <<>>]
  /\ lastEvent' = [t |-> "blur"]
  /\ UNCHANGED <<storage, engineVars, inflight, chordVars, page, element>>

NextPage ==
  \/ fallback
  \/ \E list \in PageExpansionLists : expansionsUpdated(list, NoDomain)
  \/ \E list \in PageShortcutLists : shortcutsUpdated(list, NoDomain)
  \/ \E i \in DOMAIN inflight : reinitContinue(i)
  \/ \E i \in DOMAIN inflight : storageGetAll(i)
  \/ \E i \in DOMAIN inflight : initializeResumed(i)
  \/ \E c \in PageChars : Listening /\ input(c)
  \/ Listening /\ keydownOn(KeyDown(<<"m">>, TRUE))
  \/ blur

SpecPage == InitPage /\ [][NextPage]_vars

----------------------------------------------------------------------------
(* SpecWorker: the background worker's onMessage listener with several save
   requests in progress.  inflight holds the requests received, each with
   the place its handling has reached (pc): "get" while its
   chrome.storage.sync.get is pending, "set" while its set is pending,
   "callback" when the write is in storage and the set's callback is still
   to run, "done" after that callback.  Each storage callback is a turn of
   its own. *)

\* request.scope === 'domain' && request.domain, or request.merge
SaveRequest(action, domain, merge, data) ==
  [action |-> action, domain |-> domain, merge |-> merge, data |-> data]

\* the list a popup saves for a domain
DomainExpansions(domain) ==
  << Expansion(String(<<"c">>), String(IF domain = currentDomain
                                        THEN <<"W">> ELSE <<"V">>)) >>

\* saveExpansions and saveShortcuts of two popups with domain scope, and
\* one saveExpansions with global scope
ListRequests ==
  { SaveRequest("saveExpansions", String(domain), FALSE, DomainExpansions(domain)) :
      domain \in {currentDomain, otherDomain} }
  \cup { SaveRequest("saveShortcuts", String(domain), FALSE, CtrlMText(domain)) :
           domain \in {currentDomain, otherDomain} }
  \cup { SaveRequest("saveExpansions", NoDomain, FALSE, <<>>) }

\* saveSettings with merge for one key each, and the popup's saveSettings
\* of both check boxes without merge
SettingsRequests ==
  { SaveRequest("saveSettings", NoDomain, TRUE, s) :
      s \in [domainScope : {TRUE}] \cup [caseSensitive : {TRUE}] }
  \cup { SaveRequest("saveSettings", NoDomain, FALSE,
                     [punctuationAware |-> TRUE, caseSensitive |-> FALSE]) }

\* the storage key a request writes
storageKey(request) ==
  IF request.action = "saveSettings" THEN "settings"
  ELSE IF request.action = "saveExpansions"
  THEN IF request.domain = NoDomain THEN "expansions" ELSE "expansions_domains"
  ELSE IF request.domain = NoDomain THEN "shortcuts" ELSE "shortcuts_domains"

\* the request reads the stored value before it writes
readsFirst(request) == request.domain # NoDomain \/ request.merge

\* a set that tells the tabs and answers before its callback runs
issueSetAnswering(item, value) ==
  [item EXCEPT !.pc = "set", !.items = value, !.notified = TRUE,
               !.answered = TRUE]

\* chrome.storage.sync.set({ key: value }, callback)
issueSet(item, value) == [item EXCEPT !.pc = "set", !.items = value]

\* a request as the listener finds it
Received(request) ==
  [request |-> request, pc |-> "get", items |-> EmptyObject,
   notified |-> FALSE, answered |-> FALSE, reloaded |-> FALSE, fresh |-> FALSE]

\* the onMessage listener for the three save actions: a domain-scoped or
\* merging request calls get, any other calls set with the request's data
onMessage(request) ==
  /\ Len(inflight) < MaxSaves
  /\ inflight' = Append(inflight,
                        IF readsFirst(request) THEN Received(request)
                        ELSE issueSet(Received(request), request.data))
  /\ UNCHANGED <<storage, engineVars, chordVars, fieldVars, page>>

\* map[domain] = request.expansions, or Object.assign(res.settings || {},
\* request.settings)
updated(stored, request) ==
  IF request.action = "saveSettings" THEN ObjectAssign(stored, request.data)
  ELSE MapSet(stored, request.domain.s, request.data)

\* the callback of get(['expansions_domains']), get(['shortcuts_domains'])
\* or get(['settings']): it changes what it has read and calls set
getCallback(i) ==
  /\ inflight[i].pc = "get"
  /\ inflight' = [inflight EXCEPT ![i] =
                    issueSet(@, updated(storage[storageKey(@.request)], @.request))]
  /\ UNCHANGED <<storage, engineVars, chordVars, fieldVars, page>>

\* the storage area carries out a pending set
storageSet(i) ==
  /\ inflight[i].pc = "set"
  /\ storage' = [storage EXCEPT ![storageKey(inflight[i].request)] = inflight[i].items]
  /\ inflight' = [inflight EXCEPT ![i].pc = "callback"]
  /\ UNCHANGED <<engineVars, chordVars, fieldVars, page>>

\* the callback of set: tabs.query and sendMessageSafe to every tab, then
\* sendResponse({ success: true })
setCallback(i) ==
  /\ inflight[i].pc = "callback"
  /\ inflight' = [inflight EXCEPT ![i].pc = "done", ![i].notified = TRUE,
                                  ![i].answered = TRUE]
  /\ UNCHANGED <<storage, engineVars, chordVars, fieldVars, page>>

\* a tab that got the message of request i reads storage for its reload;
\* fresh tells whether the request's write was in storage by then
tabReads(i) ==
  /\ inflight[i].notified
  /\ ~inflight[i].reloaded
  /\ inflight' = [inflight EXCEPT ![i].reloaded = TRUE,
                                  ![i].fresh = inflight[i].pc \in {"callback", "done"}]
  /\ UNCHANGED <<storage, engineVars, chordVars, fieldVars, page>>

InitWorker ==
  /\ storage = StartStorage
  /\ EngineConstructed
  /\ inflight = <<>>
  /\ NoKeyDown
  /\ ScriptLoaded
  /\ FieldConstructed

NextWorker ==
  \/ \E request \in ListRequests : onMessage(request)
  \/ \E request \in SettingsRequests : onMessage(request)
  \/ \E i \in DOMAIN inflight : getCallback(i)
  \/ \E i \in DOMAIN inflight : storageSet(i)
  \/ \E i \in DOMAIN inflight : setCallback(i)
  \/ \E i \in DOMAIN inflight : tabReads(i)

SpecWorker == InitWorker /\ [][NextWorker]_vars

----------------------------------------------------------------------------
(* Claims about the start-up (SpecStartFair) *)

\* C22: field tracking eventually begins: init() is called, by the poll tick
\* that finds the engine ready or at the latest by the fallback timer, also
\* when no load ever completes.
C22_TrackingBegins == <>(page.inits > 0)

\* C35: init() runs exactly once: under every interleaving of the poll
\* ticks, the fallback timer and the completion of the engine's first load,
\* the number of init() calls becomes 1 and stays 1.
C35_InitExactlyOnce == <>[](page.inits = 1)

\* what a load started now by _reinitializeEngine() would read
StoredForPage == _getStorageDataDomain(storage, reinitDomain(storage))

\* C24: once init() has registered the message listener, every save's
\* message starts a load, and when no read is in flight any more the
\* trigger map holds exactly the valid entries stored for the active scope
\* under keys folded by the stored caseSensitive setting, the chord map
\* holds the valid stored shortcuts, and the engine's caseSensitive setting
\* is the stored one.
C24_QuiescentIndexCurrent ==
  ( page.inits > 0 /\ inflight = <<>> )
    => /\ expansions =
            _buildTrie(StoredForPage.expansions, storage.settings.caseSensitive).map
       /\ shortcuts = _buildShortcuts(StoredForPage.shortcuts).map
       /\ settings.caseSensitive = storage.settings.caseSensitive

\* the list stored for the domain key in a per-domain table, or the global list
ScopedList(table, global, domain) ==
  IF domain # NoDomain /\ domain.s \in DOMAIN table THEN table[domain.s] ELSE global

----------------------------------------------------------------------------
(* Claims about the page (SpecPage) *)

\* the index as the last completed load built it (empty before the first)
PreviousTriggers ==
  IF loaded.done
  THEN _buildTrie(loaded.data.expansions, loaded.caseSensitiveAtBuild).map
  ELSE EmptyMap
PreviousChords ==
  IF loaded.done THEN _buildShortcuts(loaded.data.shortcuts).map ELSE EmptyMap

\* a reload is in flight
Reloading ==
  \E i \in DOMAIN inflight : inflight[i].phase \in {"reinit", "requested", "read"}

\* C23: while a reload is in flight, a text-change or key-down event is
\* handled in its own turn against the index of the last completed load:
\* each trigger lookup of the event returns what that index returns, a
\* chord is acted upon exactly when that index holds it, and a turn of the
\* reload other than its completion leaves the index as it was.
C23_StaleIndexServes ==
  [][ /\ ( EventStep /\ Reloading )
         => /\ \A i \in DOMAIN lastEvent'.calls :
                 lastEvent'.calls[i].match =
                   findExpansionMatchIn(PreviousTriggers, settings.caseSensitive,
                                        lastEvent'.calls[i].text)
            /\ lastEvent'.t = "keydown"
                 => ( lastEvent'.prevented
                        <=> ( /\ StepChord # NoKeyCombination
                              /\ MapHas(PreviousChords, StepChord.s) ) )
      /\ ( <<expansions, shortcuts, settings>>' # <<expansions, shortcuts, settings>> )
         => Len(inflight') < Len(inflight)
    ]_vars

\* with the list [aa -> X] loaded and the empty list stored, a reload in
\* flight, a space typed behind "aa" was replaced
C23_Witness ==
  /\ Reloading
  /\ storage.expansions = <<>>
  /\ loaded.done
  /\ loaded.data.expansions # <<>>
  /\ lastEvent.t = "input"
  /\ lastEvent.data = <<" ">>
  /\ lastEvent.dispatched # <<>>
  /\ element.value = <<"X", " ">>

\* C26: after the blur handler the per-field state is as constructed: the
\* mirrored text is empty, the cursor offset is 0, no delimiter is pending
\* and the pending punctuation is empty, whatever was typed before.
C26_BlurResetsSession ==
  lastEvent.t = "blur"
    => /\ manager.buffer = <<>>
       /\ manager.cursorPos = 0
       /\ manager.lastDelimiter = "null"
       /\ pendingPunctuationOf(manager) = <<>>

----------------------------------------------------------------------------
(* Further claims about the event loop (Spec) *)

\* C21: when the last load that resumed ended in its catch clause, the
\* engine is marked ready and both maps are empty, so that every trigger
\* lookup and every chord lookup returns none.
C21_FailedLoadEmptiesIndex ==
  (loaded.done /\ loaded.threw)
    => /\ isReady
       /\ expansions = EmptyMap
       /\ shortcuts = EmptyMap

----------------------------------------------------------------------------
(* Claims about what one event's handling leaves for the next *)

\* the state in which the listener of the step's event calls
\* _checkAndApplyExpansion: after _updateBuffer, and after the Enter marker
\* of a key-down
AtCheck ==
  IF lastEvent'.t = "keydown"
  THEN [_updateBuffer(Handling(element, manager))
          EXCEPT !.manager.lastDelimiter = "enter"]
  ELSE _updateBuffer(Handling(typeInto(element, lastEvent'.data[1]), manager))

\* the punctuation character at the end of word, if the mode strips it
strippedFrom(m, word) ==
  IF /\ m.settings.punctuationAware
     /\ word # <<>>
     /\ word[Len(word)] \in PunctuationChars
  THEN <<word[Len(word)]>>
  ELSE <<>>

\* what the extraction of the event strips from the word at the caret
strippedAt(st) ==
  strippedFrom(st.manager,
               wordBeforeCursor(substring(st.manager.buffer, 0,
                                          st.manager.cursorPos
                                            - excludeLenOf(st.manager))))

\* what _replaceText reads from _pendingPunctuation after that extraction
usedAfter(st) == pendingPunctuationOf(_extractTrigger(st).st.manager)

\* the first lookup of the step's event found a trigger
Replaces ==
  /\ EventStep
  /\ lastEvent'.calls # <<>>
  /\ lastEvent'.calls[1].match # NoMatch

\* C32: the punctuation that a replacement removes and re-appends is the
\* one that the extraction of the same event stripped, or none when it
\* stripped nothing, whether the word was returned whole or cut to its last
\* 50 characters.
C32_PunctuationOfSameEvent ==
  [][Replaces => usedAfter(AtCheck) = strippedAt(AtCheck)]_vars

\* C33: whenever no event handler is executing, no delimiter is pending:
\* the Enter marker set by the Enter key-down handling is cleared before
\* that handling ends, also when the replacement raises an error, so that
\* no later text-change event is taken for an Enter.
C33_NoDelimiterBetweenEvents == manager.lastDelimiter = "null"

----------------------------------------------------------------------------
(* Claims about a stored trigger typed as a word (SpecWord) *)

\* the engine's load of the stored configuration has completed and the
\* manager has merged the stored settings
ConfigurationLoaded ==
  /\ loaded.done
  /\ ~loaded.threw
  /\ loaded.data = _getStorageData(storage)
  /\ manager.settings = ObjectAssign(manager.settings, storage.settings)

\* the word at the end of the field, where the caret is
WordAtEnd == wordBeforeCursor(element.value)

\* C34: once the configuration is loaded, a space typed in a linear-string
\* field right after a whole word that is exactly a stored valid trigger (2
\* to 50 characters, no space or newline) replaces the word by the
\* trigger's replacement, under every combination of punctuationAware and
\* caseSensitive.
C34_StoredTriggerReplaced ==
  [][\A i \in DOMAIN storage.expansions :
       ( /\ ConfigurationLoaded
         /\ SpaceStep
         /\ element.kind = "linear"
         /\ element.selectionStart = Len(element.value)
         /\ WordAtEnd = storage.expansions[i].trigger.s )
       => element'.value =
            SubSeq(element.value, 1, Len(element.value) - Len(WordAtEnd))
              \o storage.expansions[i].replacement.s \o <<" ">>]_vars

\* C38: a key-down whose target is not an editable element leaves the
\* key's default action untouched, even if its chord resolves in the index:
\* the shortcut path prevents the default only when it also inserts.
C38_DefaultKeptElsewhere ==
  lastEvent.t = "keydown elsewhere" => ~lastEvent.prevented

----------------------------------------------------------------------------
(* Claims about the background worker (SpecWorker) *)

\* storage holds what request i saved
Holds(i) ==
  LET request == inflight[i].request
      stored == storage[storageKey(request)]
  IN IF request.action = "saveSettings"
     THEN \A k \in DOMAIN request.data :
            k \in DOMAIN stored /\ stored[k] = request.data[k]
     ELSE /\ MapHas(stored, request.domain.s)
          /\ stored[request.domain.s] = request.data

\* requests i and j read and write the same stored map, for different
\* domains or different settings, and no other request wrote that map
SaveTogether(i, j) ==
  /\ i # j
  /\ readsFirst(inflight[i].request)
  /\ readsFirst(inflight[j].request)
  /\ storageKey(inflight[i].request) = storageKey(inflight[j].request)
  /\ IF inflight[i].request.action = "saveSettings"
     THEN DOMAIN inflight[i].request.data \cap DOMAIN inflight[j].request.data = {}
     ELSE inflight[i].request.domain # inflight[j].request.domain
  /\ \A k \in DOMAIN inflight \ {i, j} :
       storageKey(inflight[k].request) # storageKey(inflight[i].request)

\* C36: concurrent read-modify-write saves lose no data: when two
\* domain-scoped saves for different domains, or two merging saveSettings
\* for different keys, have both completed, the stored map holds the data
\* of both, whatever the order of their storage reads and writes.
C36_NoLostSave ==
  \A i, j \in DOMAIN inflight :
    (SaveTogether(i, j) /\ inflight[i].pc = "done" /\ inflight[j].pc = "done")
      => Holds(i) /\ Holds(j)

\* C37: the worker tells the tabs and answers the save request only after
\* the request's storage write has completed, so the storage read of a
\* reload that the message starts comes after that write.
C37_NotifiedAfterWrite ==
  \A i \in DOMAIN inflight :
    /\ (inflight[i].notified \/ inflight[i].answered)
         => inflight[i].pc \in {"callback", "done"}
    /\ inflight[i].reloaded => inflight[i].fresh

\* a domain-scoped save and a merging one are done and told, a tab has read
\* for its reload, and storage holds what both saved
C37_Witness ==
  /\ Len(inflight) = 2
  /\ inflight[1].request.action = "saveExpansions"
  /\ inflight[1].request.domain # NoDomain
  /\ inflight[2].request.action = "saveSettings"
  /\ inflight[2].request.merge
  /\ \A i \in DOMAIN inflight :
       /\ inflight[i].pc = "done"
       /\ inflight[i].notified
       /\ inflight[i].reloaded
       /\ Holds(i)

=============================================================================
